---------------------------- MODULE Spec2Model ----------------------------
(***************************************************************************)
(* Clinic discovery pipeline of dc-build: the dermatology classifier, the  *)
(* per-jurisdiction collection script, the library search strategies and   *)
(* the throttled request gateway.                                          *)
(***************************************************************************)
EXTENDS Integers, Sequences, FiniteSets, TLC

VARIABLES
    cand,            \* classifier: the candidate under evaluation
    classified,      \* classifier: accept(cand) has returned
    verdict,         \* classifier: the boolean accept(cand) returned
    MAX_REQUESTS,            \* script: PLACES_MAX_REQUESTS
    MAX_CLINICS_PER_STATE,   \* script: PLACES_MAX_CLINICS_PER_STATE (0 = no cap)
    MAX_CLINICS_GLOBAL,      \* script: PLACES_MAX_CLINICS_GLOBAL (0 = no cap)
    REQUESTS,        \* script: process-wide request counter
    GLOBAL_CLINICS,  \* script: process-wide clinic counter
    pc,              \* script: position of main / collectState
    si,              \* script: index of the jurisdiction main is at
    qi,              \* script: index of the query collectState is at
    pageToken,       \* script: continuation token of the next fetch ("" = none)
    pagesForQuery,   \* script: pages fetched for the current query
    seen,            \* script: place ids seen by this collectState
    clinics,         \* script: clinics accumulated by this collectState
    files,           \* script: data/clinics/<state>.json, NoFile when not written
    lastLog,         \* script: kind of the last console line
    upstreamCalls,   \* script: fetches issued to the places service
    repeats,         \* collectors: a place id came back that was already seen
    sleptForNextPage, \* collectors: SLEEP(NEXT_PAGE_DELAY_MS) followed the latest page
    upstreamPages,   \* environment: the pages the places service answers with
    budget,          \* environment: requests the places service lets a run make
    libPc,           \* library: position of the running search strategy
    queries,         \* library: number of queries given to searchDermClinicsText
    pageLimitPerQuery, \* library: page ceiling given to searchDermClinicsText
    libQi,           \* library: index of the query / grid point being searched
    libPageToken,    \* library: continuation token of the next page ("" = none)
    pagesFetched,    \* library: pages fetched for the current query
    bounds,          \* library: bounding box given to searchDermClinicsGrid
    points,          \* library: grid points of searchDermClinicsGrid
    libSeen,         \* library: place ids seen by the running strategy
    all,             \* library: clinics accumulated by the running strategy
    now,             \* gateway: Date.now(), ms
    lastCallAt,      \* gateway: time of the last upstream response
    gw,              \* gateway: the calls of fetchWithBackoff in progress
    lastStartAt,     \* gateway: the instant the latest fetch was issued at
    minGap,          \* gateway: least time between two fetches issued in a row
    failed,          \* gateway: non-OK answers the upstream has given so far
    weekdayText,     \* resolver: opening_hours.weekday_text of the clinic
    clock,           \* resolver: weekday and minute of the day in the clinic's zone
    current_open_now, \* resolver: what calculateOpenNowFromWeekdayText returned
    resolved,        \* resolver: the call has returned
    times,           \* resolver: openTime and closeTime, once converted
    normPlace,       \* normalizer: the place whose address is decomposed
    ac,              \* normalizer: what fromAddressComponents returned
    normalized,      \* normalizer: the call has returned
    normalizer,      \* normalizer: "toClinic" (script) or "transformSinglePlace" (library)
    opening_hours,   \* normalizer: the opening_hours field of the clinic built
    fileClinics,     \* POST: the clinics in data/clinics/<state>.json
    post,            \* POST: the requests in progress
    postsStarted,    \* POST: requests received so far
    known,           \* POST: place ids in the file at first or in a request received
    latest,          \* POST: per place id, the display name most recently posted
    numTasks,        \* pool: tasks.length
    active,          \* pool: tasks running
    next,            \* pool: index of the next task to start, from 0
    taskState,       \* pool: per task "pending", "running", "done" or "failed"
    starts,          \* pool: per task, how often it was started
    poolResolved     \* pool: the runner's promise has resolved

classVars == <<cand, classified, verdict>>

envVars == <<MAX_REQUESTS, MAX_CLINICS_PER_STATE, MAX_CLINICS_GLOBAL>>

scriptVars == <<REQUESTS, GLOBAL_CLINICS, pc, si, qi, pageToken, pagesForQuery,
                seen, clinics, files, lastLog, upstreamCalls>>

upVars == <<upstreamPages, budget, repeats, sleptForNextPage>>

libVars == <<libPc, queries, pageLimitPerQuery, libQi, libPageToken, pagesFetched,
             bounds, points, libSeen, all>>

gwVars == <<now, lastCallAt, gw, lastStartAt, minGap, failed>>

hoursVars == <<weekdayText, clock, current_open_now, resolved, times>>

addrVars == <<normPlace, ac, normalized, normalizer, opening_hours>>

postVars == <<fileClinics, post, postsStarted, known, latest>>

poolVars == <<numTasks, active, next, taskState, starts, poolResolved>>

vars == <<classVars, envVars, scriptVars, upVars, libVars, gwVars, hoursVars, addrVars,
          postVars, poolVars>>

\* what the steps of one program leave alone: the other programs' state, the
\* configuration and the upstream's behaviour
classFrame  == UNCHANGED <<envVars, scriptVars, upVars, libVars, gwVars, hoursVars,
                           addrVars, postVars, poolVars>>
scriptFrame == UNCHANGED <<envVars, classVars, libVars, gwVars, upstreamPages, budget,
                           hoursVars, addrVars, postVars, poolVars>>
libFrame    == UNCHANGED <<envVars, classVars, scriptVars, gwVars, upstreamPages, budget,
                           hoursVars, addrVars, postVars, poolVars>>
gwFrame     == UNCHANGED <<envVars, classVars, scriptVars, libVars, upVars, hoursVars,
                           addrVars, postVars, poolVars>>
hoursFrame  == UNCHANGED <<envVars, classVars, scriptVars, libVars, upVars, gwVars,
                           addrVars, postVars, poolVars>>
postFrame   == UNCHANGED <<envVars, classVars, scriptVars, libVars, upVars, gwVars,
                           hoursVars, addrVars, poolVars>>
poolFrame   == UNCHANGED <<envVars, classVars, scriptVars, libVars, upVars, gwVars,
                           hoursVars, addrVars, postVars>>
addrFrame   == UNCHANGED <<envVars, classVars, scriptVars, libVars, upVars, gwVars,
                           hoursVars, postVars, poolVars>>

---------------------------------------------------------------------------
(* JavaScript strings: String.prototype.toLowerCase, includes, Array.join  *)

LowerChar(c) ==
    CASE c = "A" -> "a" [] c = "B" -> "b" [] c = "C" -> "c" [] c = "D" -> "d"
      [] c = "E" -> "e" [] c = "F" -> "f" [] c = "G" -> "g" [] c = "H" -> "h"
      [] c = "I" -> "i" [] c = "J" -> "j" [] c = "K" -> "k" [] c = "L" -> "l"
      [] c = "M" -> "m" [] c = "N" -> "n" [] c = "O" -> "o" [] c = "P" -> "p"
      [] c = "Q" -> "q" [] c = "R" -> "r" [] c = "S" -> "s" [] c = "T" -> "t"
      [] c = "U" -> "u" [] c = "V" -> "v" [] c = "W" -> "w" [] c = "X" -> "x"
      [] c = "Y" -> "y" [] c = "Z" -> "z" [] OTHER -> c

RECURSIVE toLowerCase(_)
toLowerCase(s) ==
    IF Len(s) = 0 THEN ""
    ELSE LowerChar(SubSeq(s, 1, 1)) \o toLowerCase(SubSeq(s, 2, Len(s)))

\* s.includes(t): t occurs in s as a contiguous substring
includes(s, t) ==
    \E i \in 1..(Len(s) - Len(t) + 1) : SubSeq(s, i, i + Len(t) - 1) = t

\* arr.join(' ')
RECURSIVE joinSpace(_)
joinSpace(arr) ==
    IF Len(arr) = 0 THEN ""
    ELSE IF Len(arr) = 1 THEN arr[1]
    ELSE arr[1] \o " " \o joinSpace(Tail(arr))

\* obj?.[k] with a fallback for an absent field (p.websiteUri || '')
Field(p, k, dflt) == IF k \in DOMAIN p THEN p[k] ELSE dflt

---------------------------------------------------------------------------
(* Dermatology classifier: acceptByDermHeuristics                          *)

excludeTerms ==
    << "dental", "dentist", "orthodont", "oral surgery",
       "veterinary", "animal clinic", "pet clinic",
       "massage", "spa resort", "day spa", "nail salon" >>

coreTerms == << "dermatology", "dermatologist", "dermatologic" >>

relatedTerms ==
    << "skin clinic", "skin center", "skin care clinic",
       "skin doctor", "skin specialist", "skin health",
       "medical dermatology", "cosmetic dermatology",
       "laser dermatology", "aesthetic dermatology",
       "mohs surgery", "skin cancer" >>

candName(p)    == toLowerCase(Field(p, "displayName", ""))
candWebsite(p) == toLowerCase(Field(p, "websiteUri", ""))
candTypes(p)   == toLowerCase(joinSpace(Field(p, "types", <<>>)))
searchText(p)  == candName(p) \o " " \o candWebsite(p) \o " " \o candTypes(p)

anyTermIn(terms, s) == \E i \in 1..Len(terms) : includes(s, terms[i])

medicalContext(p) ==
    \/ includes(candTypes(p), "doctor")
    \/ includes(candTypes(p), "health")
    \/ includes(searchText(p), "medical")
    \/ includes(searchText(p), "clinic")
    \/ includes(searchText(p), "center")

isStore(p) ==
    \/ includes(candTypes(p), "store")
    \/ includes(candTypes(p), "beauty_supply_store")
    \/ includes(searchText(p), "beauty supply")
    \/ includes(searchText(p), "cosmetics store")

\* a slip that consults the upstream type tag before the exclude list
acceptTypeBeforeExclude(p) ==
    IF includes(candTypes(p), "skin_care_clinic") THEN TRUE
    ELSE IF anyTermIn(excludeTerms, searchText(p)) THEN FALSE
    ELSE IF anyTermIn(coreTerms, searchText(p)) THEN TRUE
    ELSE IF anyTermIn(relatedTerms, candName(p))
            \/ anyTermIn(relatedTerms, candWebsite(p)) THEN TRUE
    ELSE IF /\ \/ includes(searchText(p), "derm")
               \/ includes(candName(p), "skin")
               \/ includes(candWebsite(p), "skin")
            /\ medicalContext(p) THEN ~isStore(p)
    ELSE FALSE

\* a slip that leaves out the retail-store validation of rule 5
acceptIgnoringStore(p) ==
    IF anyTermIn(excludeTerms, searchText(p)) THEN FALSE
    ELSE IF includes(candTypes(p), "skin_care_clinic") THEN TRUE
    ELSE IF anyTermIn(coreTerms, searchText(p)) THEN TRUE
    ELSE IF anyTermIn(relatedTerms, candName(p))
            \/ anyTermIn(relatedTerms, candWebsite(p)) THEN TRUE
    ELSE /\ \/ includes(searchText(p), "derm")
            \/ includes(candName(p), "skin")
            \/ includes(candWebsite(p), "skin")
         /\ medicalContext(p)

acceptByDermHeuristics(p) ==
    \* RULE 1: exclude obvious non-derm places first
    IF anyTermIn(excludeTerms, searchText(p)) THEN FALSE
    \* RULE 2: place type is skin_care_clinic
    ELSE IF includes(candTypes(p), "skin_care_clinic") THEN TRUE
    \* RULE 3: core dermatology terms
    ELSE IF anyTermIn(coreTerms, searchText(p)) THEN TRUE
    \* RULE 4: related terms in name or website
    ELSE IF anyTermIn(relatedTerms, candName(p))
            \/ anyTermIn(relatedTerms, candWebsite(p)) THEN TRUE
    \* RULE 5: partial matches need medical context, and no store
    ELSE IF /\ \/ includes(searchText(p), "derm")
               \/ includes(candName(p), "skin")
               \/ includes(candWebsite(p), "skin")
            /\ medicalContext(p) THEN ~isStore(p)
    \* RULE 6: reject everything else
    ELSE FALSE

---------------------------------------------------------------------------
(* Candidates the classifier is exercised on                                *)

CandNames ==
    { "Bright Skin Dermatology Center",
      "Smith Dental & Dermatology Associates",
      "Pampered Paws Pet Clinic",
      "Glow Skin Boutique",
      "Lakeside Skin Cancer Institute",
      "Derma Medical",
      "DermaGlow Aesthetics",
      "Main Street Family Practice",
      "Serenity Day Spa" }

CandWebsites ==
    { "https://www.SmithDentist.com",
      "https://glowskin.example.com",
      "https://www.example.org/" }

CandTypeLists ==
    { <<"doctor", "health">>,
      <<"skin_care_clinic">>,
      <<"skin_care_clinic", "dentist">>,
      <<"beauty_supply_store", "store">>,
      <<"veterinary_care">>,
      <<"spa", "resort">> }

\* a candidate: any of the three text fields may be absent
Candidates ==
    { [displayName |-> n, websiteUri |-> w, types |-> t] :
          n \in CandNames, w \in CandWebsites, t \in CandTypeLists }
    \cup { [displayName |-> n, types |-> t] : n \in CandNames, t \in CandTypeLists }
    \cup { [displayName |-> n, websiteUri |-> w] : n \in CandNames, w \in CandWebsites }
    \cup { [websiteUri |-> w, types |-> t] : w \in CandWebsites, t \in CandTypeLists }
    \cup { [displayName |-> n] : n \in CandNames }

\* the classifier is at rest while another program runs
NoCand == [displayName |-> ""]

ClassIdle ==
    /\ cand = NoCand
    /\ classified = FALSE
    /\ verdict = FALSE

\* a slip that lets the result of the last evaluation leak into this one
ClassifySticky ==
    /\ cand # NoCand
    /\ ~classified
    /\ classified' = TRUE
    /\ verdict' = (verdict \/ acceptByDermHeuristics(cand))
    /\ UNCHANGED cand
    /\ classFrame

\* one evaluation of accept(candidate)
Classify ==
    /\ cand # NoCand
    /\ ~classified
    /\ classified' = TRUE
    /\ verdict' = acceptByDermHeuristics(cand)
    /\ UNCHANGED cand
    /\ classFrame

\* the caller moves on to the next upstream result; what the last evaluation
\* returned stays behind
NextCandidate ==
    /\ classified
    /\ cand' \in Candidates
    /\ classified' = FALSE
    /\ UNCHANGED verdict
    /\ classFrame

---------------------------------------------------------------------------
(* Upstream places service: the results a search page can carry            *)

MaxPageLen == 2

Places ==
    { [id |-> "ChIJ-a", displayName |-> "Bright Skin Dermatology Center",
       types |-> <<"doctor", "health">>],
      [id |-> "ChIJ-a", displayName |-> "Bright Skin Dermatology Ctr",
       websiteUri |-> "https://glowskin.example.com", types |-> <<"doctor">>],
      [id |-> "ChIJ-b", displayName |-> "Lakeside Skin Cancer Institute"],
      [id |-> "ChIJ-c", displayName |-> "Smith Dental & Dermatology Associates",
       types |-> <<"dentist", "doctor">>],
      [displayName |-> "Derma Medical", types |-> <<"doctor">>] }

RECURSIVE SeqsUpTo(_, _)
SeqsUpTo(S, n) ==
    IF n = 0 THEN {<<>>}
    ELSE LET shorter == SeqsUpTo(S, n - 1)
         IN  shorter \cup { Append(q, x) : q \in shorter, x \in S }

\* data.places of one response page
Pages == SeqsUpTo(Places, MaxPageLen)

\* pages of an upstream that has nothing to return
EmptyPages == { pl \in Pages : Len(pl) = 0 }

\* acceptByDermHeuristics over the places the upstream can return
acceptedPlace == [p \in Places |-> acceptByDermHeuristics(p)]

\* data.nextPageToken: absent or empty ("") or an opaque token
PageTokens == {"", "token"}

\* HTTP statuses the upstream answers with
Statuses == {200, 404, 429, 503}

\* res.ok
isOk(status) == status >= 200 /\ status < 300

FailStatuses == { st \in Statuses : ~isOk(st) }

---------------------------------------------------------------------------
(* scripts/collect: main, collectState, searchTextOnce, gate, toClinic      *)

STATES == <<"AL", "AK", "AZ", "AR">>

NumStates == 2

\* the jurisdictions of this run (--states=...)
states == SubSeq(STATES, 1, NumStates)

\* collectState builds three queries per jurisdiction
NumQueries == 3

\* requests the places service lets one run make
MaxRun == 6

\* the same, for an upstream that only ever answers empty pages
MaxRunPaging == 11

Null == "null"
\* a jurisdiction file that was never written
NoFile == [state |-> Null, total |-> 0, clinics |-> <<>>]

toClinic(p) ==
    [ place_id     |-> Field(p, "id", Null),
      display_name |-> Field(p, "displayName", Null),
      website      |-> Field(p, "websiteUri", Null),
      types        |-> Field(p, "types", <<>>) ]

placeIds(list) == { list[i].place_id : i \in 1..Len(list) }

\* the for (const p of places) loop of collectState: how it is left
\* ("end", "break" on the per-state cap, "throw" on the global cap) and the
\* seen set, clinic list and global counter it leaves behind
RECURSIVE collectPlaces(_, _, _, _, _)
collectPlaces(places, sn, cl, gc, rp) ==
    IF places = <<>>
    THEN [seen |-> sn, clinics |-> cl, global |-> gc, repeats |-> rp, exit |-> "end"]
    ELSE
      LET p  == Head(places)
          id == Field(p, "id", "")
      IN  IF ~acceptedPlace[p] THEN collectPlaces(Tail(places), sn, cl, gc, rp)
          ELSE IF id # "" /\ id \notin sn THEN
              LET sn2 == sn \cup {id}
                  cl2 == Append(cl, toClinic(p))
                  gc2 == gc + 1
              IN  IF MAX_CLINICS_PER_STATE # 0 /\ Len(cl2) >= MAX_CLINICS_PER_STATE
                  THEN [seen |-> sn2, clinics |-> cl2, global |-> gc2,
                        repeats |-> rp, exit |-> "break"]
                  ELSE IF MAX_CLINICS_GLOBAL # 0 /\ gc2 >= MAX_CLINICS_GLOBAL
                  THEN [seen |-> sn2, clinics |-> cl2, global |-> gc2,
                        repeats |-> rp, exit |-> "throw"]
                  ELSE collectPlaces(Tail(places), sn2, cl2, gc2, rp)
          ELSE collectPlaces(Tail(places), sn, cl, gc, rp \/ id # "")

\* Number(process.env.X || dflt) for the values the run is configured with
EnvMaxRequests == {3}
EnvMaxPerState == {0, 1}
EnvMaxGlobal   == {0, 3}

ScriptInit ==
    /\ MAX_REQUESTS \in EnvMaxRequests
    /\ MAX_CLINICS_PER_STATE \in EnvMaxPerState
    /\ MAX_CLINICS_GLOBAL \in EnvMaxGlobal
    /\ REQUESTS = 0
    /\ GLOBAL_CLINICS = 0
    /\ pc = "main"
    /\ si = 1
    /\ qi = 0
    /\ pageToken = ""
    /\ pagesForQuery = 0
    /\ seen = {}
    /\ clinics = <<>>
    /\ files = [s \in 1..NumStates |-> NoFile]
    /\ lastLog = "banner"
    /\ upstreamCalls = 0

ScriptIdle ==
    /\ MAX_REQUESTS = 0
    /\ MAX_CLINICS_PER_STATE = 0
    /\ MAX_CLINICS_GLOBAL = 0
    /\ REQUESTS = 0
    /\ GLOBAL_CLINICS = 0
    /\ pc = "off"
    /\ si = 0
    /\ qi = 0
    /\ pageToken = ""
    /\ pagesForQuery = 0
    /\ seen = {}
    /\ clinics = <<>>
    /\ files = <<>>
    /\ lastLog = "none"
    /\ upstreamCalls = 0

\* main: the next iteration of for (const st of states) enters collectState,
\* which starts its first query
StartState ==
    /\ pc = "main"
    /\ si <= Len(states)
    /\ seen' = {}
    /\ clinics' = <<>>
    /\ qi' = 1
    /\ pageToken' = ""
    /\ pagesForQuery' = 0
    /\ lastLog' = "state"
    /\ pc' = "gate"
    /\ repeats' = FALSE
    /\ sleptForNextPage' = FALSE
    /\ UNCHANGED <<REQUESTS, GLOBAL_CLINICS, si, files, upstreamCalls>>
    /\ scriptFrame

\* searchTextOnce -> gate(): REQUESTS++, then the rate sleep
Gate ==
    /\ pc = "gate"
    /\ REQUESTS < budget
    /\ REQUESTS' = REQUESTS + 1
    /\ pc' = "fetch"
    /\ UNCHANGED <<GLOBAL_CLINICS, si, qi, pageToken, pagesForQuery, seen, clinics,
                   files, lastLog, upstreamCalls, repeats, sleptForNextPage>>
    /\ scriptFrame

\* a slip that flushes what was collected so far when the query fails
FetchFailFlushes(status) ==
    /\ pc = "fetch"
    /\ ~isOk(status)
    /\ upstreamCalls' = upstreamCalls + 1
    /\ lastLog' = "error"
    /\ files' = [files EXCEPT ![si] = [state   |-> states[si],
                                        total   |-> Len(clinics),
                                        clinics |-> clinics]]
    /\ si' = si + 1
    /\ pc' = "main"
    /\ UNCHANGED <<REQUESTS, GLOBAL_CLINICS, qi, pageToken, pagesForQuery, seen,
                   clinics, repeats, sleptForNextPage>>
    /\ scriptFrame

\* a slip that treats a failed query like a cap: the loop over the
\* jurisdictions is left
FetchFailAborts(status) ==
    /\ pc = "fetch"
    /\ ~isOk(status)
    /\ upstreamCalls' = upstreamCalls + 1
    /\ lastLog' = "error"
    /\ pc' = "finish"
    /\ UNCHANGED <<REQUESTS, GLOBAL_CLINICS, si, qi, pageToken, pagesForQuery, seen,
                   clinics, files, repeats, sleptForNextPage>>
    /\ scriptFrame

\* searchTextOnce: the fetch answers non-OK, the Error propagates out of
\* collectState into main's catch, which logs it and goes on with the loop
FetchFail(status) ==
    /\ pc = "fetch"
    /\ ~isOk(status)
    /\ upstreamCalls' = upstreamCalls + 1
    /\ lastLog' = "error"
    /\ si' = si + 1
    /\ pc' = "main"
    /\ UNCHANGED <<REQUESTS, GLOBAL_CLINICS, qi, pageToken, pagesForQuery, seen,
                   clinics, files, repeats, sleptForNextPage>>
    /\ scriptFrame

\* searchTextOnce answers a page; collectState consumes it
FetchPage(places, nextPageToken) ==
    /\ pc = "fetch"
    /\ places \in upstreamPages
    /\ upstreamCalls' = upstreamCalls + 1
    /\ LET r == collectPlaces(places, seen, clinics, GLOBAL_CLINICS, repeats)
       IN  /\ GLOBAL_CLINICS' = r.global
           /\ repeats' = r.repeats
           /\ seen' = r.seen
           /\ clinics' = r.clinics
           /\ IF r.exit = "throw"
              THEN \* 'Global clinic cap hit': main logs it and breaks
                   /\ lastLog' = "limit"
                   /\ pc' = "finish"
                   /\ pagesForQuery' = pagesForQuery + 1
                   /\ UNCHANGED <<qi, pageToken, sleptForNextPage>>
              ELSE /\ lastLog' = lastLog
                   /\ pageToken' = nextPageToken
                   \* if (pageToken) await SLEEP(NEXT_PAGE_DELAY_MS)
                   /\ sleptForNextPage' = (nextPageToken # "")
                   /\ IF nextPageToken # ""
                      THEN \* while (pageToken): sleep, then the next page
                           /\ pagesForQuery' = pagesForQuery + 1
                           /\ qi' = qi
                           /\ pc' = "gate"
                      ELSE IF qi < NumQueries
                      THEN \* next query of the jurisdiction
                           /\ pagesForQuery' = 0
                           /\ qi' = qi + 1
                           /\ pc' = "gate"
                      ELSE /\ pagesForQuery' = pagesForQuery + 1
                           /\ qi' = qi + 1
                           /\ pc' = "write"
    /\ UNCHANGED <<REQUESTS, si, files>>
    /\ scriptFrame

\* collectState: fs.writeFile of the jurisdiction's payload, then main
\* advances to the next jurisdiction
WriteState ==
    /\ pc = "write"
    /\ files' = [files EXCEPT ![si] = [state   |-> states[si],
                                        total   |-> Len(clinics),
                                        clinics |-> clinics]]
    /\ lastLog' = "written"
    /\ si' = si + 1
    /\ pc' = "main"
    /\ UNCHANGED <<REQUESTS, GLOBAL_CLINICS, qi, pageToken, pagesForQuery, seen,
                   clinics, upstreamCalls, repeats, sleptForNextPage>>
    /\ scriptFrame

\* main: the loop is over (list exhausted or break), the totals are printed
Finish ==
    /\ \/ pc = "main" /\ si > Len(states)
       \/ pc = "finish"
    /\ pc' = "done"
    /\ lastLog' = "done"
    /\ UNCHANGED <<REQUESTS, GLOBAL_CLINICS, si, qi, pageToken, pagesForQuery, seen,
                   clinics, files, upstreamCalls, repeats, sleptForNextPage>>
    /\ scriptFrame

ScriptNext ==
    \/ StartState
    \/ Gate
    \/ \E st \in FailStatuses : FetchFail(st)
    \/ \E pl \in upstreamPages, t \in PageTokens : FetchPage(pl, t)
    \/ WriteState
    \/ Finish

---------------------------------------------------------------------------
(* lib/googlePlaces: transformSinglePlace, searchDermClinicsText,          *)
(* searchDermClinicsGrid, searchDermClinics, generateGridPoints            *)

DERM_TERMS ==
    << "dermatology", "dermatologist", "derma", "skin clinic", "skin center",
       "medical dermatology", "cosmetic dermatology", "laser dermatology",
       "skin care" >>

Undefined == "undefined"

\* the null a rejected place is transformed to
NullClinic == [place_id |-> Null]

\* types.includes(tag) on the array of type tags
hasType(p, tag) ==
    LET types == Field(p, "types", <<>>)
    IN  \E i \in 1..Len(types) : types[i] = tag

hasDermTerm(p) ==
    \/ anyTermIn(DERM_TERMS, candName(p))
    \/ includes(candName(p), "derm")
    \/ includes(candName(p), "skin")
    \/ includes(candWebsite(p), "derm")
    \/ includes(candWebsite(p), "skin")

\* Clinic | null
transformSinglePlace(place) ==
    IF Field(place, "id", "") = "" THEN NullClinic
    ELSE IF ~(hasType(place, "skin_care_clinic") \/ hasDermTerm(place)) THEN NullClinic
    ELSE [ place_id     |-> place.id,
           display_name |-> Field(place, "displayName", ""),
           website      |-> Field(place, "websiteUri", Undefined),
           types        |-> Field(place, "types", <<>>) ]

\* transformSinglePlace over the places the upstream can return
transformed == [p \in Places |-> transformSinglePlace(p)]

\* places.map(transformSinglePlace).filter(clinic => clinic !== null)
RECURSIVE transformPlacesResponse(_)
transformPlacesResponse(places) ==
    IF places = <<>> THEN <<>>
    ELSE LET c == transformed[Head(places)]
         IN  IF c = NullClinic THEN transformPlacesResponse(Tail(places))
             ELSE <<c>> \o transformPlacesResponse(Tail(places))

\* a slip that pushes every clinic of the batch, seen or not
RECURSIVE mergeBatchAll(_, _, _, _)
mergeBatchAll(batch, sn, al, rp) ==
    IF batch = <<>> THEN [seen |-> sn, all |-> al, repeats |-> rp]
    ELSE LET c == Head(batch)
         IN  mergeBatchAll(Tail(batch), sn \cup {c.place_id}, Append(al, c),
                           rp \/ c.place_id \in sn)

\* for (const c of batch) if (!seen.has(c.place_id)) { seen.add; all.push }
RECURSIVE mergeBatch(_, _, _, _)
\* a slip that lets a later occurrence replace the stored clinic
RECURSIVE mergeBatchLastWins(_, _, _, _)
mergeBatchLastWins(batch, sn, al, rp) ==
    IF batch = <<>> THEN [seen |-> sn, all |-> al, repeats |-> rp]
    ELSE LET c == Head(batch)
         IN  IF c.place_id \notin sn
             THEN mergeBatchLastWins(Tail(batch), sn \cup {c.place_id}, Append(al, c), rp)
             ELSE mergeBatchLastWins(Tail(batch), sn,
                      [i \in 1..Len(al) |-> IF al[i].place_id = c.place_id THEN c ELSE al[i]],
                      TRUE)

mergeBatch(batch, sn, al, rp) ==
    IF batch = <<>> THEN [seen |-> sn, all |-> al, repeats |-> rp]
    ELSE LET c == Head(batch)
         IN  IF c.place_id \notin sn
             THEN mergeBatch(Tail(batch), sn \cup {c.place_id}, Append(al, c), rp)
             ELSE mergeBatch(Tail(batch), sn, al, TRUE)

\* A coordinate is a record [u, e]: u whole micro-degrees plus e units of
\* 1e-15 degree, the part a double carries beyond the sixth decimal.
UNITS_PER_MICRO == 1000000000

\* the 1e-9 degree the loops of generateGridPoints add to the upper bounds
EPSILON == 1000000

\* what one floating-point operation on a coordinate below 256 degrees can be
\* off by: half an ulp, 2^-46 degree, rounded up to whole units
HALF_ULP == 15

\* the ways the floating-point additions of one call can round
Roundings == {0 - HALF_ULP, 0, HALF_ULP}

Deg10(tenths) == [u |-> tenths * 100000, e |-> 0]

\* x + y in floating point, off by r
fadd(x, y, r) == [u |-> x.u + y.u, e |-> x.e + y.e + r]

\* x <= y + 1e-9
leqEps(x, y) == x.u < y.u \/ (x.u = y.u /\ x.e - y.e <= EPSILON)

\* x <= y
leq(x, y) == x.u < y.u \/ (x.u = y.u /\ x.e <= y.e)

\* Math.round(n * 1e6) / 1e6, in whole micro-degrees
round6(n) == n.u + ((2 * n.e + UNITS_PER_MICRO) \div (2 * UNITS_PER_MICRO))

\* a slip that compares with the upper bound itself, without the epsilon
RECURSIVE gridAxisNoEpsilon(_, _, _, _)
gridAxisNoEpsilon(from, to, step, r) ==
    IF ~leq(from, to) THEN <<>>
    ELSE <<round6(from)>> \o gridAxisNoEpsilon(fadd(from, step, r), to, step, r)

\* the values one for loop of generateGridPoints runs through
RECURSIVE gridAxis(_, _, _, _)
gridAxis(from, to, step, r) ==
    IF ~leqEps(from, to) THEN <<>>
    ELSE <<round6(from)>> \o gridAxis(fadd(from, step, r), to, step, r)

RECURSIVE gridRows(_, _)
gridRows(lats, lngs) ==
    IF lats = <<>> THEN <<>>
    ELSE [i \in 1..Len(lngs) |-> [lat |-> Head(lats), lng |-> lngs[i]]]
         \o gridRows(Tail(lats), lngs)

\* r: how the additions lat += stepDeg, lng += stepDeg round in this call
generateGridPoints(b, stepDeg, r) ==
    gridRows(gridAxis(b.minLat, b.maxLat, stepDeg, r),
             gridAxis(b.minLng, b.maxLng, stepDeg, r))

\* default stepDeg of searchDermClinicsGrid: 0.3 degree
STEP_DEG == Deg10(3)

\* no sweep was asked for
NoBounds == [minLat |-> Deg10(0), maxLat |-> Deg10(0),
             minLng |-> Deg10(0), maxLng |-> Deg10(0)]

\* spans of a bounding box, in tenths of a degree
GridSpans == {0, 3, 4, 6}

\* bounding boxes a sweep is asked for: south-west corner 30, -90 with the
\* spans above, and a box whose bounds are the wrong way round
GridBoxes ==
    { [minLat |-> Deg10(300), maxLat |-> Deg10(300 + dLat),
       minLng |-> Deg10(-900), maxLng |-> Deg10(-900 + dLng)] :
          dLat \in GridSpans, dLng \in GridSpans }
    \cup { [minLat |-> Deg10(301), maxLat |-> Deg10(300),
            minLng |-> Deg10(-900), maxLng |-> Deg10(-900)] }

\* default pageLimitPerQuery of searchDermClinicsText
PAGE_LIMIT_DEFAULT == 10

MaxQueries == 2
MaxPageLimit == 2

\* page ceilings a caller passes
PageLimits == 1..MaxPageLimit

LibInit ==
    /\ libPc = "idle"
    /\ queries = 0
    /\ pageLimitPerQuery = PAGE_LIMIT_DEFAULT
    /\ libQi = 0
    /\ libPageToken = ""
    /\ pagesFetched = 0
    /\ bounds = NoBounds
    /\ points = <<>>
    /\ libSeen = {}
    /\ all = <<>>

LibIdle ==
    /\ libPc = "off"
    /\ queries = 0
    /\ pageLimitPerQuery = 0
    /\ libQi = 0
    /\ libPageToken = ""
    /\ pagesFetched = 0
    /\ bounds = NoBounds
    /\ points = <<>>
    /\ libSeen = {}
    /\ all = <<>>

\* searchDermClinicsText(queries, pageLimitPerQuery) is called
TextStart(nq, limit) ==
    /\ libPc = "idle"
    /\ queries' = nq
    /\ pageLimitPerQuery' = limit
    /\ libQi' = 1
    /\ libPageToken' = ""
    /\ pagesFetched' = 0
    /\ libSeen' = {}
    /\ all' = <<>>
    /\ libPc' = IF nq = 0 THEN "returned" ELSE "text"
    /\ sleptForNextPage' = FALSE
    /\ UNCHANGED <<bounds, points, repeats>>
    /\ libFrame

\* searchDermClinicsTextPage answers a page, the do-while body consumes it
TextPage(places, nextPageToken) ==
    /\ libPc = "text"
    /\ places \in upstreamPages
    /\ LET m == mergeBatch(transformPlacesResponse(places), libSeen, all, repeats)
       IN  /\ libSeen' = m.seen
           /\ all' = m.all
           /\ repeats' = m.repeats
    \* the loop goes straight on to the next page
    /\ sleptForNextPage' = FALSE
    /\ libPageToken' = nextPageToken
    /\ IF nextPageToken # "" /\ pagesFetched + 1 < pageLimitPerQuery
       THEN /\ pagesFetched' = pagesFetched + 1
            /\ UNCHANGED <<libQi, libPc>>
       ELSE IF libQi < queries
       THEN /\ pagesFetched' = 0
            /\ libQi' = libQi + 1
            /\ UNCHANGED libPc
       ELSE /\ pagesFetched' = pagesFetched + 1
            /\ libQi' = libQi + 1
            /\ libPc' = "returned"
    /\ UNCHANGED <<queries, pageLimitPerQuery, bounds, points>>
    /\ libFrame

\* the gateway hands back a non-OK response: searchDermClinicsTextPage throws
\* and searchDermClinicsText rejects
TextPageFail(status) ==
    /\ libPc = "text"
    /\ ~isOk(status)
    /\ libPc' = "threw"
    /\ UNCHANGED <<queries, pageLimitPerQuery, libQi, libPageToken, pagesFetched,
                   bounds, points, libSeen, all, repeats, sleptForNextPage>>
    /\ libFrame

\* searchDermClinicsGrid(bounds) is called
GridStart(b, r) ==
    /\ libPc = "idle"
    /\ bounds' = b
    /\ points' = generateGridPoints(b, STEP_DEG, r)
    /\ libQi' = 1
    /\ libSeen' = {}
    /\ all' = <<>>
    /\ libPc' = IF points' = <<>> THEN "returned" ELSE "grid"
    /\ UNCHANGED <<queries, pageLimitPerQuery, libPageToken, pagesFetched, repeats, sleptForNextPage>>
    /\ libFrame

\* searchDermClinics(p, radius, 'DISTANCE') answers for one grid point
GridCell(places) ==
    /\ libPc = "grid"
    /\ places \in upstreamPages
    /\ LET m == mergeBatch(transformPlacesResponse(places), libSeen, all, repeats)
       IN  /\ libSeen' = m.seen
           /\ all' = m.all
           /\ repeats' = m.repeats
    /\ UNCHANGED sleptForNextPage
    /\ libQi' = libQi + 1
    /\ libPc' = IF libQi < Len(points) THEN "grid" ELSE "returned"
    /\ UNCHANGED <<queries, pageLimitPerQuery, libPageToken, pagesFetched, bounds,
                   points>>
    /\ libFrame

\* searchDermClinics catches the non-OK response and returns []
GridCellFail(status) ==
    /\ libPc = "grid"
    /\ ~isOk(status)
    /\ libQi' = libQi + 1
    /\ libPc' = IF libQi < Len(points) THEN "grid" ELSE "returned"
    /\ UNCHANGED <<queries, pageLimitPerQuery, libPageToken, pagesFetched, bounds,
                   points, libSeen, all, repeats, sleptForNextPage>>
    /\ libFrame

LibNext ==
    \/ \E nq \in 0..MaxQueries, limit \in PageLimits \cup {PAGE_LIMIT_DEFAULT} :
           TextStart(nq, limit)
    \/ \E pl \in upstreamPages, t \in PageTokens : TextPage(pl, t)
    \/ \E st \in FailStatuses : TextPageFail(st)
    \/ \E b \in GridBoxes, r \in Roundings : GridStart(b, r)
    \/ \E pl \in upstreamPages : GridCell(pl)
    \/ \E st \in FailStatuses : GridCellFail(st)

---------------------------------------------------------------------------
(* lib/googlePlaces: fetchWithBackoff, the throttled request gateway        *)

QPS_TARGET == 3

\* Math.ceil(1000 / QPS_TARGET)
MIN_INTERVAL_MS == (1000 + QPS_TARGET - 1) \div QPS_TARGET

\* default of the maxRetries option
MAX_RETRIES_DEFAULT == 5

\* base of the backoff, ms
BACKOFF_BASE_MS == 500

\* Math.floor(Math.random() * 250) lies in 0..249; the two ends are drawn
JITTER_SPAN == 250
Jitters == {0, JITTER_SPAN - 1}

\* requests being served by the process at the same time, each of which calls
\* the gateway: the search route and the details route
Callers == {"search", "details"}

\* Date.now() when the first request arrives, long after lastCallAt = 0
StartMs == 1000

\* the clock is advanced freely for this long, later only from timer to timer
MaxTime == 700

\* non-OK answers the upstream gives in all: to a call that has the gateway
\* to itself, and to two calls that overlap
MaxFailures == 6
MaxFailuresOverlap == 2

\* no fetch issued yet / no two fetches issued yet
Never == -1

\* how far the clock moves between two events
TickSteps == {MIN_INTERVAL_MS - 1, MIN_INTERVAL_MS}

RECURSIVE pow2(_)
pow2(n) == IF n = 0 THEN 1 ELSE 2 * pow2(n - 1)

\* a slip that does not double the base
backoffDelayFlat(attempt, jitter) == BACKOFF_BASE_MS + jitter

\* base * Math.pow(2, attempt) + jitter
backoffDelay(attempt, jitter) == BACKOFF_BASE_MS * pow2(attempt) + jitter

\* a slip that retries once more than maxRetries allows
shouldRetryOnceMore(status, attempt, maxRetries) ==
    /\ status = 429 \/ (status >= 500 /\ status < 600)
    /\ attempt <= maxRetries

\* a slip that retries every non-OK response
shouldRetryAnyFailure(status, attempt, maxRetries) ==
    /\ status >= 400
    /\ attempt < maxRetries

\* (res.status === 429 || (res.status >= 500 && res.status < 600)) && attempt < maxRetries
shouldRetry(status, attempt, maxRetries) ==
    /\ status = 429 \/ (status >= 500 /\ status < 600)
    /\ attempt < maxRetries

retryableStatus(status) == status = 429 \/ (status >= 500 /\ status < 600)

NoCall ==
    [ pc |-> "off", maxRetries |-> 0, attempt |-> 0, wakeAt |-> 0, calls |-> 0,
      failures |-> 0, backoffs |-> 0, last |-> 0, ret |-> 0,
      delay |-> 0, prevDelay |-> 0 ]

IdleCall == [NoCall EXCEPT !.pc = "idle"]

\* the second request may or may not arrive while the first is served
GwInit ==
    /\ now = StartMs
    /\ lastCallAt = 0
    /\ gw \in { [c \in Callers |-> IF c = "search" THEN IdleCall ELSE NoCall],
                 [c \in Callers |-> IdleCall] }
    /\ lastStartAt = Never
    /\ minGap = Never
    /\ failed = 0

GwIdle ==
    /\ now = 0
    /\ lastCallAt = 0
    /\ gw = <<>>
    /\ lastStartAt = Never
    /\ minGap = Never
    /\ failed = 0

failureBudget ==
    IF \E c \in Callers : gw[c].pc = "off" THEN MaxFailures ELSE MaxFailuresOverlap

\* await fetch(url, init) is issued at the current instant
startFetch(c, call) ==
    /\ gw' = [gw EXCEPT ![c] = [call EXCEPT !.pc = "inflight", !.calls = @ + 1]]
    /\ lastStartAt' = now
    /\ minGap' = IF lastStartAt = Never THEN Never
                 ELSE IF minGap = Never \/ now - lastStartAt < minGap
                 THEN now - lastStartAt
                 ELSE minGap

\* fetchWithBackoff(url, init, {maxRetries}) is entered: the rate check, then
\* either the throttle sleep or the first fetch
GwEnter(c, maxRetries) ==
    /\ gw[c].pc = "idle"
    /\ LET elapsed == now - lastCallAt
           call    == [gw[c] EXCEPT !.maxRetries = maxRetries]
       IN  IF elapsed < MIN_INTERVAL_MS
           THEN /\ gw' = [gw EXCEPT ![c] =
                          [call EXCEPT !.pc = "throttle",
                                       !.wakeAt = now + (MIN_INTERVAL_MS - elapsed)]]
                /\ UNCHANGED <<lastStartAt, minGap>>
           ELSE startFetch(c, call)
    /\ UNCHANGED <<now, lastCallAt, failed>>
    /\ gwFrame

\* the throttle sleep is over: the first fetch
GwThrottled(c) ==
    /\ gw[c].pc = "throttle"
    /\ now >= gw[c].wakeAt
    /\ startFetch(c, gw[c])
    /\ UNCHANGED <<now, lastCallAt, failed>>
    /\ gwFrame

\* the upstream answers: lastCallAt = Date.now(), then return or back off
GwRespond(c, status, jitter) ==
    /\ gw[c].pc = "inflight"
    /\ isOk(status) \/ failed < failureBudget
    /\ failed' = IF isOk(status) THEN failed ELSE failed + 1
    /\ lastCallAt' = now
    /\ LET call == [gw[c] EXCEPT !.last = status,
                                 !.failures = IF retryableStatus(status)
                                              THEN @ + 1 ELSE @]
       IN  IF isOk(status)
           THEN gw' = [gw EXCEPT ![c] = [call EXCEPT !.pc = "returned", !.ret = status]]
           ELSE IF shouldRetry(status, call.attempt, call.maxRetries)
           THEN gw' = [gw EXCEPT ![c] =
                       [call EXCEPT !.pc = "backoff",
                                    !.backoffs = @ + 1,
                                    !.prevDelay = call.delay,
                                    !.delay = backoffDelay(call.attempt, jitter),
                                    !.wakeAt = now + backoffDelay(call.attempt, jitter)]]
           ELSE gw' = [gw EXCEPT ![c] = [call EXCEPT !.pc = "returned", !.ret = status]]
    /\ UNCHANGED <<now, lastStartAt, minGap>>
    /\ gwFrame

\* the backoff sleep is over: attempt += 1 and the next fetch
GwRetry(c) ==
    /\ gw[c].pc = "backoff"
    /\ now >= gw[c].wakeAt
    /\ startFetch(c, [gw[c] EXCEPT !.attempt = @ + 1])
    /\ UNCHANGED <<now, lastCallAt, failed>>
    /\ gwFrame

\* time passes
Tick(d) ==
    /\ now + d <= StartMs + MaxTime
    /\ now' = now + d
    /\ UNCHANGED <<lastCallAt, gw, lastStartAt, minGap, failed>>
    /\ gwFrame

\* time passes until the timer of a sleeping caller is due
TickToTimer(c) ==
    /\ gw[c].pc \in {"throttle", "backoff"}
    /\ gw[c].wakeAt > now
    /\ now' = gw[c].wakeAt
    /\ UNCHANGED <<lastCallAt, gw, lastStartAt, minGap, failed>>
    /\ gwFrame

GwNext ==
    \/ \E c \in Callers : GwEnter(c, MAX_RETRIES_DEFAULT)
    \/ \E c \in Callers : GwThrottled(c)
    \/ \E c \in Callers, st \in Statuses, j \in Jitters : GwRespond(c, st, j)
    \/ \E c \in Callers : GwRetry(c)
    \/ \E d \in TickSteps : Tick(d)
    \/ \E c \in Callers : TickToTimer(c)

---------------------------------------------------------------------------
(* app/api/clinics/route: calculateOpenNowFromWeekdayText                   *)

\* A line of weekday_text is a sequence of characters, each a one-character
\* string; the characters outside ASCII go by their Unicode names.
EN_DASH == "EN DASH"
EM_DASH == "EM DASH"
NNBSP == "NARROW NO-BREAK SPACE"

chars(s) == [i \in 1..Len(s) |-> SubSeq(s, i, i)]

Digits == <<"0", "1", "2", "3", "4", "5", "6", "7", "8", "9">>

\* \d
isDigit(c) == \E d \in 1..Len(Digits) : Digits[d] = c

digitVal(c) == (CHOOSE d \in 1..Len(Digits) : Digits[d] = c) - 1

\* \s
isSpace(c) == c \in {" ", NNBSP}

\* [-–—]
isDash(c) == c \in {"-", EN_DASH, EM_DASH}

\* the character at position i, "" past the end
charAt(l, i) == IF i \in 1..Len(l) THEN l[i] ELSE ""

\* text.startsWith(w)
startsWith(l, w) == Len(l) >= Len(w) /\ SubSeq(l, 1, Len(w)) = w

\* text.toLowerCase().includes(w)
lowerIncludes(l, w) ==
    \E i \in 1..(Len(l) - Len(w) + 1) :
        \A k \in 1..Len(w) : LowerChar(l[i + k - 1]) = w[k]

\* \s* is greedy: the first position at or after i that holds no white space
RECURSIVE skipSpaces(_, _)
skipSpaces(l, i) == IF isSpace(charAt(l, i)) THEN skipSpaces(l, i + 1) ELSE i

\* parseInt of the n digits at position i
RECURSIVE parseInt(_, _, _)
parseInt(l, i, n) ==
    IF n = 0 THEN 0 ELSE parseInt(l, i, n - 1) * 10 + digitVal(l[i + n - 1])

NoTime == [ok |-> FALSE, hour |-> 0, min |-> 0, period |-> "", next |-> 0]

\* (\d{n}):(\d{2})\s*(AM|PM) at position i, letter case ignored
timeAt(l, i, n) ==
    IF /\ \A k \in 0..(n - 1) : isDigit(charAt(l, i + k))
       /\ charAt(l, i + n) = ":"
       /\ isDigit(charAt(l, i + n + 1))
       /\ isDigit(charAt(l, i + n + 2))
    THEN LET j == skipSpaces(l, i + n + 3)
             p == LowerChar(charAt(l, j)) \o LowerChar(charAt(l, j + 1))
         IN  IF p \in {"am", "pm"}
             THEN [ok |-> TRUE, hour |-> parseInt(l, i, n),
                   min |-> parseInt(l, i + n + 1, 2), period |-> p, next |-> j + 2]
             ELSE NoTime
    ELSE NoTime

\* \d{1,2} is greedy: two digits are tried before one
timeFrom(l, i) == IF timeAt(l, i, 2).ok THEN timeAt(l, i, 2) ELSE timeAt(l, i, 1)

NoMatch == [ok |-> FALSE, open |-> NoTime, close |-> NoTime]

\* the whole pattern, tried at position i
matchAt(l, i) ==
    LET open == timeFrom(l, i)
    IN  IF ~open.ok THEN NoMatch
        ELSE LET k == skipSpaces(l, open.next)
             IN  IF ~isDash(charAt(l, k)) THEN NoMatch
                 ELSE LET close == timeFrom(l, skipSpaces(l, k + 1))
                      IN  IF close.ok
                          THEN [ok |-> TRUE, open |-> open, close |-> close]
                          ELSE NoMatch

\* todayHours.match(...): the leftmost match of the pattern in the line
timeMatch(l) ==
    LET hits == { i \in 1..Len(l) : matchAt(l, i).ok }
    IN  IF hits = {} THEN NoMatch
        ELSE matchAt(l, CHOOSE i \in hits : \A j \in hits : i <= j)

MINUTES_PER_HOUR == 60
NOON == 12

\* a slip that adds twelve hours to every PM time and none to 12 AM
to24HourPlain(t) ==
    IF t.period = "pm"
    THEN t.hour * MINUTES_PER_HOUR + t.min + NOON * MINUTES_PER_HOUR
    ELSE t.hour * MINUTES_PER_HOUR + t.min

\* openTime / closeTime: minutes since midnight of a matched time
to24Hour(t) ==
    IF t.period = "pm" /\ t.hour # NOON
    THEN t.hour * MINUTES_PER_HOUR + t.min + NOON * MINUTES_PER_HOUR
    ELSE IF t.period = "am" /\ t.hour = NOON THEN t.min
    ELSE t.hour * MINUTES_PER_HOUR + t.min


\* weekday_text as the places service writes it ("google": narrow no-break
\* space before AM/PM, en dash), in plain ASCII, and tight with an em dash
LineStyles == {"google", "ascii", "tight"}

fmt2(n) == <<Digits[(n \div 10) + 1], Digits[(n % 10) + 1]>>

fmtHour(h) == IF h >= 10 THEN fmt2(h) ELSE <<Digits[h + 1]>>

fmtTime(t, style) ==
    fmtHour(t.hour) \o <<":">> \o fmt2(t.min)
        \o (CASE style = "google" -> <<NNBSP>> \o chars(t.period)
              [] style = "ascii"  -> <<" ">> \o chars(t.period)
              [] style = "tight"  -> chars(toLowerCase(t.period)))

fmtDash(style) ==
    CASE style = "google" -> <<" ", EN_DASH, " ">>
      [] style = "ascii"  -> <<" ", "-", " ">>
      [] style = "tight"  -> <<EM_DASH>>

Time(h, m, p) == [hour |-> h, min |-> m, period |-> p]

\* opening and closing time of a day, on the 12-hour clock
HourSpans ==
    { [open |-> Time(9, 0, "AM"),   close |-> Time(5, 0, "PM")],
      [open |-> Time(12, 0, "AM"),  close |-> Time(8, 0, "AM")],
      [open |-> Time(12, 30, "PM"), close |-> Time(11, 59, "PM")],
      [open |-> Time(10, 0, "AM"),  close |-> Time(12, 0, "PM")],
      [open |-> Time(6, 0, "PM"),   close |-> Time(2, 0, "AM")],
      [open |-> Time(10, 0, "PM"),  close |-> Time(12, 0, "AM")] }

HourSpecs ==
    { [day |-> "Monday", span |-> sp, style |-> st] : sp \in HourSpans, st \in LineStyles }

formatLine(r) ==
    chars(r.day) \o chars(": ") \o fmtTime(r.span.open, r.style)
        \o fmtDash(r.style) \o fmtTime(r.span.close, r.style)

\* lines that carry no parseable pair of times
IrregularLines ==
    { chars("Monday: Closed"),
      chars("Monday: CLOSED"),
      chars("Monday: by appointment"),
      chars("Monday: Open 24 hours"),
      chars("Monday: 9:00 - 5:00 PM"),
      chars("Monday: closed 12:00 PM - 1:00 PM") }

TuesdayLine ==
    formatLine([day |-> "Tuesday",
                span |-> [open |-> Time(8, 0, "AM"), close |-> Time(4, 0, "PM")],
                style |-> "google"])

MondayLines == { formatLine(r) : r \in HourSpecs } \cup IrregularLines

HourLines == MondayLines \cup {TuesdayLine}

WeekTexts ==
    {<<>>, <<TuesdayLine>>}
        \cup { <<l>> : l \in MondayLines }
        \cup { <<TuesdayLine, l>> : l \in MondayLines }

ClockMinutes == {0, 30, 479, 480, 539, 540, 720, 1019, 1020, 1439}

Clocks == { [weekday |-> d, t |-> t] : d \in {"Monday", "Wednesday"}, t \in ClockMinutes }

\* the pattern applied to each line the resolver can meet
matched == [l \in HourLines |-> timeMatch(l)]

\* the "hour" part Intl.DateTimeFormat gives under hour12: false: the hours
\* 1..23 as they are; the hour after midnight is 0 or 24, depending on the
\* hour cycle the JavaScript engine resolves hour12: false to for en-US
hourParts(h) == IF h = 0 THEN {0, 24} ELSE {h}

\* a slip that goes straight to the pattern, without the "closed" test
calculateOpenNowIgnoringClosed(text, parts) ==
    IF Len(text) = 0 THEN FALSE
    ELSE
      LET currentTime == parts.hour * MINUTES_PER_HOUR + parts.minute
          found == { i \in 1..Len(text) : startsWith(text[i], chars(parts.weekday)) }
      IN  IF found = {} THEN FALSE
          ELSE
            LET todayHours == text[CHOOSE i \in found : \A j \in found : i <= j]
            IN  IF ~matched[todayHours].ok THEN FALSE
                ELSE LET openTime  == to24Hour(matched[todayHours].open)
                         closeTime == to24Hour(matched[todayHours].close)
                     IN  currentTime >= openTime /\ currentTime < closeTime

\* a slip that lets hours run past midnight
calculateOpenNowWrapping(text, parts) ==
    IF Len(text) = 0 THEN FALSE
    ELSE
      LET currentTime == parts.hour * MINUTES_PER_HOUR + parts.minute
          found == { i \in 1..Len(text) : startsWith(text[i], chars(parts.weekday)) }
      IN  IF found = {} THEN FALSE
          ELSE
            LET todayHours == text[CHOOSE i \in found : \A j \in found : i <= j]
            IN  IF lowerIncludes(todayHours, chars("closed")) THEN FALSE
                ELSE IF ~matched[todayHours].ok THEN FALSE
                ELSE LET openTime  == to24Hour(matched[todayHours].open)
                         closeTime == to24Hour(matched[todayHours].close)
                     IN  IF closeTime <= openTime
                         THEN currentTime >= openTime \/ currentTime < closeTime
                         ELSE currentTime >= openTime /\ currentTime < closeTime

\* parts: the weekday, hour and minute formatToParts(now) gives
calculateOpenNowFromWeekdayText(text, parts) ==
    IF Len(text) = 0 THEN FALSE
    ELSE
      LET currentTime == parts.hour * MINUTES_PER_HOUR + parts.minute
          found == { i \in 1..Len(text) : startsWith(text[i], chars(parts.weekday)) }
      IN  IF found = {} THEN FALSE
          ELSE
            LET todayHours == text[CHOOSE i \in found : \A j \in found : i <= j]
            IN  IF lowerIncludes(todayHours, chars("closed")) THEN FALSE
                ELSE IF ~matched[todayHours].ok THEN FALSE
                ELSE LET openTime  == to24Hour(matched[todayHours].open)
                         closeTime == to24Hour(matched[todayHours].close)
                     IN  currentTime >= openTime /\ currentTime < closeTime

NoTimes == [converted |-> FALSE, openTime |-> 0, closeTime |-> 0]

\* the locals openTime and closeTime of the resolver when it reaches its
\* last line, after the AM/PM conversion
convertedTimes(text, parts) ==
    IF Len(text) = 0 THEN NoTimes
    ELSE
      LET found == { i \in 1..Len(text) : startsWith(text[i], chars(parts.weekday)) }
      IN  IF found = {} THEN NoTimes
          ELSE
            LET todayHours == text[CHOOSE i \in found : \A j \in found : i <= j]
            IN  IF lowerIncludes(todayHours, chars("closed")) THEN NoTimes
                ELSE IF ~matched[todayHours].ok THEN NoTimes
                ELSE [converted |-> TRUE,
                      openTime  |-> to24Hour(matched[todayHours].open),
                      closeTime |-> to24Hour(matched[todayHours].close)]

HoursInit ==
    /\ times = NoTimes
    /\ weekdayText \in WeekTexts
    /\ clock \in Clocks
    /\ current_open_now = FALSE
    /\ resolved = FALSE

NoClock == [weekday |-> "", t |-> 0]

HoursIdle ==
    /\ times = NoTimes
    /\ weekdayText = <<>>
    /\ clock = NoClock
    /\ current_open_now = FALSE
    /\ resolved = FALSE

\* transformClinicData calls the resolver for one clinic
Resolve(hour) ==
    /\ clock # NoClock
    /\ ~resolved
    /\ hour \in hourParts(clock.t \div MINUTES_PER_HOUR)
    /\ current_open_now' =
           calculateOpenNowFromWeekdayText(weekdayText,
               [weekday |-> clock.weekday, hour |-> hour,
                minute |-> clock.t % MINUTES_PER_HOUR])
    /\ times' = convertedTimes(weekdayText,
                  [weekday |-> clock.weekday, hour |-> hour,
                   minute |-> clock.t % MINUTES_PER_HOUR])
    /\ resolved' = TRUE
    /\ UNCHANGED <<weekdayText, clock>>
    /\ hoursFrame

\* the next clinic of the response, or the next request
NextClinic ==
    /\ resolved
    /\ weekdayText' \in WeekTexts
    /\ clock' \in Clocks
    /\ resolved' = FALSE
    /\ UNCHANGED <<current_open_now, times>>
    /\ hoursFrame

HoursNext ==
    \/ \E h \in 0..24 : Resolve(h)
    \/ NextClinic

---------------------------------------------------------------------------
(* Entity normalizer: fromAddressComponents (library and script alike)      *)

\* what the places service puts into addressComponents
AddressComponents ==
    { [longText |-> "Birmingham", shortText |-> "Birmingham",
       types |-> <<"locality", "political">>],
      [longText |-> "Hoover", shortText |-> "Hoover", types |-> <<"postal_town">>],
      [longText |-> "Alabama", shortText |-> "AL",
       types |-> <<"administrative_area_level_1", "political">>],
      [longText |-> "35203", shortText |-> "35203", types |-> <<"postal_code">>],
      [longText |-> "United States", shortText |-> "US",
       types |-> <<"country", "political">>],
      [longText |-> "Suite 100", shortText |-> "Ste 100"] }

MaxComponents == 3

\* places with an address-component list, and one without the field
NormPlaces ==
    { [id |-> "ChIJ-a", addressComponents |-> l] :
          l \in SeqsUpTo(AddressComponents, MaxComponents) }
        \cup { [id |-> "ChIJ-a"] }

\* c.types?.includes(type)
typesInclude(c, type) ==
    LET types == Field(c, "types", <<>>)
    IN  \E i \in 1..Len(types) : types[i] = type

\* components?.find(c => c.types?.includes(type)): the index of the first
\* such component, 0 for undefined
get(components, type) ==
    LET hits == { i \in 1..Len(components) : typesInclude(components[i], type) }
    IN  IF hits = {} THEN 0 ELSE CHOOSE i \in hits : \A j \in hits : i <= j

\* get(type)?.[text] ?? dflt
textOf(components, type, text, dflt) ==
    IF get(components, type) = 0 THEN dflt
    ELSE Field(components[get(components, type)], text, dflt)

Address(threw, state_code, city, postal_code) ==
    [threw |-> threw, state_code |-> state_code, city |-> city,
     postal_code |-> postal_code]

\* a slip without the optional chaining: reading shortText / longText of a
\* component that was not found is a TypeError
fromAddressComponentsUnguarded(components) ==
    IF \/ get(components, "administrative_area_level_1") = 0
       \/ get(components, "locality") = 0
       \/ get(components, "postal_code") = 0
    THEN Address(TRUE, Null, Null, Null)
    ELSE Address(FALSE,
                 textOf(components, "administrative_area_level_1", "shortText", Null),
                 textOf(components, "locality", "longText", Null),
                 textOf(components, "postal_code", "longText", Null))

fromAddressComponents(components) ==
    Address(FALSE,
            textOf(components, "administrative_area_level_1", "shortText", Null),
            textOf(components, "locality", "longText",
                   textOf(components, "postal_town", "longText", Null)),
            textOf(components, "postal_code", "longText", Null))

NoAddress == Address(FALSE, Null, Null, Null)

\* what the places service puts into currentOpeningHours.openNow and into
\* regularOpeningHours.weekdayDescriptions
OpenNowFlags == {"true", "false"}

WeekdayDescriptions == { <<>>, <<"Monday: 9:00 AM - 5:00 PM", "Tuesday: Closed">> }

\* places with any of the two opening-hours objects, or none
HoursPlaces ==
    { [id |-> "ChIJ-a"] }
        \cup { [id |-> "ChIJ-a", currentOpeningHours |-> [openNow |-> f]] :
                  f \in OpenNowFlags }
        \cup { [id |-> "ChIJ-a", regularOpeningHours |-> [weekdayDescriptions |-> w]] :
                  w \in WeekdayDescriptions }
        \cup { [id |-> "ChIJ-a", currentOpeningHours |-> [openNow |-> f],
                 regularOpeningHours |-> [weekdayDescriptions |-> w]] :
                  f \in OpenNowFlags, w \in WeekdayDescriptions }

\* the opening_hours field: set with its two members, or left unset
\* (undefined in the library, null in the script)
OpeningHours(open_now, weekday_text) ==
    [set |-> TRUE, open_now |-> open_now, weekday_text |-> weekday_text]

NoOpeningHours == [set |-> FALSE, open_now |-> Undefined, weekday_text |-> <<>>]

\* place.currentOpeningHours?.openNow
openNowOf(place) ==
    IF "currentOpeningHours" \in DOMAIN place
    THEN Field(place.currentOpeningHours, "openNow", Undefined)
    ELSE Undefined

\* transformSinglePlace: opening_hours of the library's clinic; an array,
\* empty or not, is truthy
libOpeningHours(place) ==
    IF \/ openNowOf(place) # Undefined
       \/ /\ "regularOpeningHours" \in DOMAIN place
          /\ "weekdayDescriptions" \in DOMAIN place.regularOpeningHours
    THEN OpeningHours(openNowOf(place),
                      IF "regularOpeningHours" \in DOMAIN place
                      THEN Field(place.regularOpeningHours, "weekdayDescriptions", <<>>)
                      ELSE <<>>)
    ELSE NoOpeningHours

\* toClinic: opening_hours of the script's clinic
scriptOpeningHours(p) ==
    IF "regularOpeningHours" \in DOMAIN p
    THEN OpeningHours(IF openNowOf(p) = Undefined THEN Null ELSE openNowOf(p),
                      Field(p.regularOpeningHours, "weekdayDescriptions", <<>>))
    ELSE NoOpeningHours

Normalizers == {"toClinic", "transformSinglePlace"}

AddrInit ==
    /\ normPlace \in NormPlaces \cup HoursPlaces
    /\ normalizer \in Normalizers
    /\ ac = NoAddress
    /\ opening_hours = NoOpeningHours
    /\ normalized = FALSE

NoPlace == [id |-> ""]

AddrIdle ==
    /\ normPlace = NoPlace
    /\ normalizer = "none"
    /\ ac = NoAddress
    /\ opening_hours = NoOpeningHours
    /\ normalized = FALSE

\* toClinic / transformSinglePlace: fromAddressComponents(p.addressComponents ?? [])
Normalize ==
    /\ normPlace # NoPlace
    /\ ~normalized
    /\ ac' = fromAddressComponents(Field(normPlace, "addressComponents", <<>>))
    /\ opening_hours' = IF normalizer = "toClinic" THEN scriptOpeningHours(normPlace)
                        ELSE libOpeningHours(normPlace)
    /\ normalized' = TRUE
    /\ UNCHANGED <<normPlace, normalizer>>
    /\ addrFrame

\* the next candidate is normalized
NextPlace ==
    /\ normalized
    /\ normPlace' \in NormPlaces \cup HoursPlaces
    /\ normalizer' \in Normalizers
    /\ normalized' = FALSE
    /\ UNCHANGED <<ac, opening_hours>>
    /\ addrFrame

AddrNext == Normalize \/ NextPlace

---------------------------------------------------------------------------
(* app/api/clinics POST: merge of posted clinics into a state file          *)

PostIds == {"ChIJ-a", "ChIJ-b"}

PostNames == {"Skin Clinic", "Skin Clinic PC"}

PostClinics == { [place_id |-> i, display_name |-> n] : i \in PostIds, n \in PostNames }

\* clinics of one request body
MaxBody == 2

\* requests one run of the server receives
MaxPosts == 3

Bodies == SeqsUpTo(PostClinics, MaxBody)

Posters == {"p1", "p2"}

\* clinicMap.set(clinic.place_id, clinic) on the values of the Map, which
\* are in insertion order: a key already there keeps its place
mapSet(values, clinic) ==
    IF \E i \in 1..Len(values) : values[i].place_id = clinic.place_id
    THEN [i \in 1..Len(values) |->
             IF values[i].place_id = clinic.place_id THEN clinic ELSE values[i]]
    ELSE Append(values, clinic)

RECURSIVE mapSetAll(_, _)
mapSetAll(values, list) ==
    IF list = <<>> THEN values ELSE mapSetAll(mapSet(values, Head(list)), Tail(list))

\* a slip that keeps the stored record when the id is already there
RECURSIVE mergeKeepingStored(_, _)
mergeKeepingStored(existingClinics, postedClinics) ==
    IF postedClinics = <<>> THEN existingClinics
    ELSE LET c == Head(postedClinics)
         IN  IF \E i \in 1..Len(existingClinics) : existingClinics[i].place_id = c.place_id
             THEN mergeKeepingStored(existingClinics, Tail(postedClinics))
             ELSE mergeKeepingStored(Append(existingClinics, c), Tail(postedClinics))

\* mergedClinics: the Map filled from the file, then from the request
mergeClinics(existingClinics, postedClinics) ==
    mapSetAll(mapSetAll(<<>>, existingClinics), postedClinics)

NoPost == [pc |-> "off", clinics |-> <<>>, existingClinics |-> <<>>, status |-> 0]

IdlePost == [NoPost EXCEPT !.pc = "idle"]

\* per place id the name last posted, Null for an id never posted
RECURSIVE latestAfter(_, _)
latestAfter(l, list) ==
    IF list = <<>> THEN l
    ELSE latestAfter([l EXCEPT ![Head(list).place_id] = Head(list).display_name],
                     Tail(list))

\* files the first request can meet: none, or one written earlier
FilesAtFirst == { <<>>, <<[place_id |-> "ChIJ-a", display_name |-> "Skin Clinic"]>> }

PostInit ==
    /\ fileClinics \in FilesAtFirst
    /\ post \in { [p \in Posters |-> IF p = "p1" THEN IdlePost ELSE NoPost],
                  [p \in Posters |-> IdlePost] }
    /\ postsStarted = 0
    /\ known = placeIds(fileClinics)
    /\ latest = latestAfter([i \in PostIds |-> Null], fileClinics)

PostIdle ==
    /\ fileClinics = <<>>
    /\ post = [p \in Posters |-> NoPost]
    /\ postsStarted = 0
    /\ known = {}
    /\ latest = [i \in PostIds |-> Null]

\* a request arrives whose body has no clinics array: 400
PostInvalid(r) ==
    /\ post[r].pc \in {"idle", "done"}
    /\ postsStarted < MaxPosts
    /\ postsStarted' = postsStarted + 1
    /\ post' = [post EXCEPT ![r] = [IdlePost EXCEPT !.pc = "done", !.status = 400]]
    /\ UNCHANGED <<fileClinics, known, latest>>
    /\ postFrame

\* a request arrives: body parsed, data directory ensured
PostStart(r, body) ==
    /\ post[r].pc \in {"idle", "done"}
    /\ postsStarted < MaxPosts
    /\ postsStarted' = postsStarted + 1
    /\ post' = [post EXCEPT ![r] = [IdlePost EXCEPT !.pc = "read", !.clinics = body]]
    /\ known' = known \cup placeIds(body)
    /\ latest' = latestAfter(latest, body)
    /\ UNCHANGED fileClinics
    /\ postFrame

\* fs.readFile resolves: existingClinics
PostRead(r) ==
    /\ post[r].pc = "read"
    /\ post' = [post EXCEPT ![r].pc = "merge", ![r].existingClinics = fileClinics]
    /\ UNCHANGED <<fileClinics, postsStarted, known, latest>>
    /\ postFrame

\* the merge, fs.writeFile and the 200 response
PostWrite(r) ==
    /\ post[r].pc = "merge"
    /\ fileClinics' = mergeClinics(post[r].existingClinics, post[r].clinics)
    /\ post' = [post EXCEPT ![r].pc = "done", ![r].status = 200,
                             ![r].existingClinics = <<>>]
    /\ UNCHANGED <<postsStarted, known, latest>>
    /\ postFrame

PostNext ==
    \/ \E r \in Posters : PostInvalid(r)
    \/ \E r \in Posters, body \in Bodies : PostStart(r, body)
    \/ \E r \in Posters : PostRead(r)
    \/ \E r \in Posters : PostWrite(r)

---------------------------------------------------------------------------
(* scripts/fetch-unsplash-images: the concurrency runner of main            *)

CONCURRENCY == 5

\* tasks of one run
MaxTasks == 7

Tasks == 1..numTasks

PoolInit ==
    /\ numTasks \in 0..MaxTasks
    /\ active = 0
    /\ next = 0
    /\ taskState = [t \in 1..MaxTasks |-> "pending"]
    /\ starts = [t \in 1..MaxTasks |-> 0]
    /\ poolResolved = FALSE

PoolIdle ==
    /\ numTasks = 0
    /\ active = 0
    /\ next = 0
    /\ taskState = <<>>
    /\ starts = <<>>
    /\ poolResolved = TRUE

\* a slip that starts every task left, whatever is running
roomForAll(act, nxt) == numTasks - nxt

\* how many tasks the loop of runNext starts: while (active < CONCURRENCY
\* && next < tasks.length)
roomFor(act, nxt) ==
    IF CONCURRENCY - act < numTasks - nxt THEN CONCURRENCY - act ELSE numTasks - nxt

\* if (next >= tasks.length && active === 0) return resolve()
resolves(act, nxt) == nxt >= numTasks /\ act = 0

\* runNext called with `act` tasks running and `nxt` tasks started
runNext(act, nxt, settled) ==
    LET n == IF resolves(act, nxt) \/ roomFor(act, nxt) < 0 THEN 0 ELSE roomFor(act, nxt)
        begun == (nxt + 1)..(nxt + n)
    IN  /\ poolResolved' = (poolResolved \/ resolves(act, nxt))
        /\ next' = nxt + n
        /\ active' = act + n
        /\ starts' = [t \in DOMAIN starts |->
                         IF t \in begun THEN starts[t] + 1 ELSE starts[t]]
        /\ taskState' = [t \in DOMAIN taskState |->
                            IF t \in begun THEN "running"
                            ELSE IF t \in DOMAIN settled THEN settled[t]
                            ELSE taskState[t]]

NoneSettled == [t \in {} |-> "done"]

\* the executor of the promise calls runNext once
PoolStart ==
    /\ ~poolResolved
    /\ next = 0
    /\ active = 0
    /\ runNext(active, next, NoneSettled)
    /\ UNCHANGED numTasks
    /\ poolFrame

\* task t resolves or rejects: .catch logs, .finally does active-- and runNext
TaskSettles(t, outcome) ==
    /\ t \in Tasks
    /\ taskState[t] = "running"
    /\ runNext(active - 1, next, [x \in {t} |-> outcome])
    /\ UNCHANGED numTasks
    /\ poolFrame

PoolNext ==
    \/ PoolStart
    \/ \E t \in 1..MaxTasks : TaskSettles(t, "done")
    \/ \E t \in 1..MaxTasks : TaskSettles(t, "failed")

---------------------------------------------------------------------------
(* Specifications                                                           *)

UpstreamOff ==
    /\ upstreamPages = {}
    /\ budget = 0
    /\ repeats = FALSE
    /\ sleptForNextPage = FALSE

UpstreamOn(pages, requests) ==
    /\ upstreamPages = pages
    /\ budget = requests
    /\ repeats = FALSE
    /\ sleptForNextPage = FALSE

\* the persistence endpoint and the image downloader are at rest
SideIdle == PostIdle /\ PoolIdle

\* the read-side programs are at rest
OthersIdle == HoursIdle /\ AddrIdle /\ SideIdle

ClassInit ==
    /\ cand \in Candidates
    /\ classified = FALSE
    /\ verdict = FALSE
    /\ ScriptIdle
    /\ UpstreamOff
    /\ LibIdle
    /\ GwIdle
    /\ OthersIdle

ClassNext == Classify \/ NextCandidate

SpecClassify == ClassInit /\ [][ClassNext]_vars

\* one run of the collection script
CollectInit ==
    ScriptInit /\ UpstreamOn(Pages, MaxRun) /\ ClassIdle /\ LibIdle /\ GwIdle
        /\ OthersIdle

SpecCollect == CollectInit /\ [][ScriptNext]_vars

\* one call of a library search strategy
SearchInit ==
    LibInit /\ UpstreamOn(Pages, 0) /\ ScriptIdle /\ ClassIdle /\ GwIdle /\ OthersIdle

SpecSearch == SearchInit /\ [][LibNext]_vars

\* a collector at work: the script's collectState or a library strategy
SpecCollectors == (CollectInit \/ SearchInit) /\ [][ScriptNext \/ LibNext]_vars

\* pagination against an upstream that has no results but keeps handing out
\* continuation tokens
PagingInit ==
    /\ \/ ScriptInit /\ UpstreamOn(EmptyPages, MaxRunPaging) /\ LibIdle
       \/ LibInit /\ UpstreamOn(EmptyPages, 0) /\ ScriptIdle
    /\ ClassIdle /\ GwIdle /\ OthersIdle

\* calls of the gateway, possibly overlapping
GatewayInit == GwInit /\ ScriptIdle /\ UpstreamOff /\ LibIdle /\ ClassIdle /\ OthersIdle

SpecGateway == GatewayInit /\ [][GwNext]_vars

SpecPaging == PagingInit /\ [][ScriptNext \/ LibNext]_vars

\* the open-now resolver at the read side
OpenNowInit ==
    HoursInit /\ AddrIdle /\ ClassIdle /\ ScriptIdle /\ UpstreamOff /\ LibIdle /\ GwIdle
        /\ SideIdle

SpecOpenNow == OpenNowInit /\ [][HoursNext]_vars

\* the address decomposition of the normalizer
NormalizeInit ==
    AddrInit /\ HoursIdle /\ ClassIdle /\ ScriptIdle /\ UpstreamOff /\ LibIdle /\ GwIdle
        /\ SideIdle

SpecNormalize == NormalizeInit /\ [][AddrNext]_vars

\* POST requests merging into one state file, one at a time or two overlapping
MergeInit ==
    PostInit /\ PoolIdle /\ HoursIdle /\ AddrIdle /\ ClassIdle /\ ScriptIdle /\ UpstreamOff
        /\ LibIdle /\ GwIdle

SpecMerge == MergeInit /\ [][PostNext]_vars

\* one run of the image downloader's task pool
DownloadInit ==
    PoolInit /\ PostIdle /\ HoursIdle /\ AddrIdle /\ ClassIdle /\ ScriptIdle /\ UpstreamOff
        /\ LibIdle /\ GwIdle

SpecPool == DownloadInit /\ [][PoolNext]_vars

\* the pool when every started task settles and the runner is called
FairSpecPool == SpecPool /\ WF_vars(PoolNext)

---------------------------------------------------------------------------
\* C1: a candidate whose combined lowercase text (name + website + type
\* tags) contains an exclude term is rejected, whatever positive signal
\* (skin_care_clinic tag, core term, related term, weak signal) it carries.
hasExcludeTerm(p) ==
    \E i \in 1..Len(excludeTerms) : includes(searchText(p), excludeTerms[i])

ExclusionDominates ==
    (classified /\ hasExcludeTerm(cand)) => verdict = FALSE

ExclusionDominatesWitness ==
    /\ classified
    /\ verdict = FALSE
    /\ hasExcludeTerm(cand)
    /\ anyTermIn(coreTerms, searchText(cand))
    /\ includes(candTypes(cand), "skin_care_clinic")

---------------------------------------------------------------------------
\* C2: within one collector (collectState, searchDermClinicsText,
\* searchDermClinicsGrid) the accumulated clinic list never holds two entries
\* with the same place_id, and the seen set is exactly the ids it holds.
distinctIds(list) ==
    \A i, j \in 1..Len(list) : i # j => list[i].place_id # list[j].place_id

CollectorHoldsEachIdOnce ==
    /\ distinctIds(clinics)
    /\ seen = placeIds(clinics)
    /\ distinctIds(all)
    /\ libSeen = placeIds(all)

CollectorHoldsEachIdOnceWitness ==
    /\ repeats
    /\ libPc = "returned"
    /\ Len(all) = 2

---------------------------------------------------------------------------
\* C3: across the jurisdictions of one run a place_id is committed to at
\* most one jurisdiction's output file.
PlaceIdInOneJurisdiction ==
    \A s1, s2 \in DOMAIN files :
        s1 # s2 => placeIds(files[s1].clinics) \cap placeIds(files[s2].clinics) = {}

---------------------------------------------------------------------------
\* C4: one gateway call issues at most maxRetries + 1 fetches; when every
\* answer was 429 or 5xx it returns the last failing response after exactly
\* that many, and when an answer is 2xx that response is what it returns.
exhausted(k) == k.pc = "returned" /\ retryableStatus(k.last)

RetriesBoundedLastResponseReturned ==
    \A c \in Callers :
        LET k == gw[c]
        IN  /\ k.calls <= k.maxRetries + 1
            /\ k.pc = "returned" => k.ret = k.last
            /\ exhausted(k) => k.calls = k.maxRetries + 1 /\ k.failures = k.calls
            /\ (k.pc = "returned" /\ ~retryableStatus(k.last) /\ k.failures > 0)
                   => k.calls = k.failures + 1

RetriesBoundedLastResponseReturnedWitness ==
    \E c \in Callers :
        /\ exhausted(gw[c])
        /\ gw[c].calls = MAX_RETRIES_DEFAULT + 1
        /\ gw[c].ret = 503

---------------------------------------------------------------------------
\* C5: a non-2xx answer that is neither 429 nor 5xx is returned as it is, and
\* neither a retry nor a backoff sleep follows it: answered to the first
\* fetch, it is returned after exactly one upstream call.
permanentFailure(status) == ~isOk(status) /\ ~retryableStatus(status)

PermanentFailureReturnedAtOnce ==
    \A c \in Callers :
        LET k == gw[c]
        IN  /\ (k.pc # "inflight" /\ k.calls > 0 /\ permanentFailure(k.last))
                   => /\ k.pc = "returned"
                      /\ k.ret = k.last
                      /\ k.calls = k.failures + 1
                      /\ k.backoffs = k.failures
            /\ (k.pc = "returned" /\ permanentFailure(k.ret) /\ k.failures = 0)
                   => k.calls = 1 /\ k.backoffs = 0

PermanentFailureReturnedAtOnceWitness ==
    \E c \in Callers :
        /\ gw[c].pc = "returned"
        /\ gw[c].ret = 404
        /\ gw[c].calls = 1
        /\ gw[c].backoffs = 0

---------------------------------------------------------------------------
\* C6: whatever the interleaving of the callers of the gateway, two upstream
\* calls are never issued less than MIN_INTERVAL_MS apart.
CallsSpacedByMinInterval ==
    minGap = Never \/ minGap >= MIN_INTERVAL_MS

---------------------------------------------------------------------------
\* C7: every upstream call is counted in REQUESTS, and a run never issues
\* more upstream calls than MAX_REQUESTS.
RequestCapRespected ==
    /\ upstreamCalls <= REQUESTS
    /\ upstreamCalls <= MAX_REQUESTS

---------------------------------------------------------------------------
\* C8: the pages fetched for one query never exceed the per-query page
\* ceiling, in the library text search and in collectState alike, also when
\* the upstream hands out a continuation token on every page.
PaginationBounded ==
    /\ pagesFetched <= pageLimitPerQuery
    /\ pagesForQuery <= PAGE_LIMIT_DEFAULT

---------------------------------------------------------------------------
\* C9: with a positive MAX_CLINICS_PER_STATE no jurisdiction's clinic list,
\* and no committed file, holds more clinics than the cap.
PerStateCapRespected ==
    MAX_CLINICS_PER_STATE > 0 =>
        /\ Len(clinics) <= MAX_CLINICS_PER_STATE
        /\ \A s \in DOMAIN files : files[s].total <= MAX_CLINICS_PER_STATE

---------------------------------------------------------------------------
\* C10: a jurisdiction's file is written only by the step that follows the
\* last page of its last query, with the full clinic list; a step that aborts
\* the jurisdiction (failed query, global cap) writes no file at all.
aborting == pc = "fetch" /\ pc' \notin {"gate", "write"}

OutputOnlyAfterFullCollection ==
    [][ /\ aborting => files' = files
        /\ files' # files =>
              /\ pc = "write"
              /\ qi = NumQueries + 1
              /\ pageToken = ""
              /\ \A s \in DOMAIN files : s # si => files'[s] = files[s]
              /\ files'[si].clinics = clinics ]_vars

OutputOnlyAfterFullCollectionWitness ==
    /\ pc = "main"
    /\ lastLog = "error"
    /\ si = 3
    /\ Len(clinics) > 0
    /\ files[1].total > 0
    /\ files[2] = NoFile

---------------------------------------------------------------------------
\* C11: once the global clinic cap is reached (GLOBAL_CLINICS has come up to
\* a positive MAX_CLINICS_GLOBAL) the run is on its way out of main's loop:
\* no jurisdiction is started and no upstream call is issued any more.
globalCapReached == MAX_CLINICS_GLOBAL > 0 /\ GLOBAL_CLINICS >= MAX_CLINICS_GLOBAL

GlobalCapHaltsRun == globalCapReached => pc \in {"finish", "done"}

---------------------------------------------------------------------------
\* C12: a failed query of one jurisdiction is logged and main goes on with
\* the next jurisdiction: right after the failure control is back in main's
\* loop, and a run that no clinic cap stopped ends only after every
\* jurisdiction of the list was attempted.
FailureDoesNotAbortRun ==
    /\ lastLog = "error" => pc = "main"
    /\ (pc \in {"finish", "done"} /\ ~globalCapReached) => si = Len(states) + 1

\* the first jurisdiction failed, the second one was collected and written
FailureDoesNotAbortRunWitness ==
    /\ pc = "done"
    /\ files[1] = NoFile
    /\ files[2].total > 0

---------------------------------------------------------------------------
\* C13: every clinic a search strategy holds or commits has passed the
\* dermatology classifier: none has an exclude term in its name, website or
\* type tags, in the script's list and files and in the library's list.
clinicText(c) ==
    toLowerCase(c.display_name) \o " " \o toLowerCase(c.website) \o " "
        \o toLowerCase(joinSpace(c.types))

OutputClinics == { toClinic(p) : p \in Places } \cup { transformed[p] : p \in Places }

clinicExcluded ==
    [c \in OutputClinics \ {NullClinic} |-> anyTermIn(excludeTerms, clinicText(c))]

noneExcluded(list) == \A i \in 1..Len(list) : ~clinicExcluded[list[i]]

OutputPassedClassifier ==
    /\ noneExcluded(clinics)
    /\ \A s \in DOMAIN files : noneExcluded(files[s].clinics)
    /\ noneExcluded(all)

---------------------------------------------------------------------------
\* C14: a candidate with no exclude term and without the skin_care_clinic
\* type tag is accepted whenever its text contains one of the core terms
\* dermatology, dermatologist, dermatologic, derma -- medical context or not.
hasCoreTerm(p) ==
    \E t \in {"dermatology", "dermatologist", "dermatologic", "derma"} :
        includes(searchText(p), t)

CoreTermAccepted ==
    ( /\ classified
      /\ ~hasExcludeTerm(cand)
      /\ ~includes(candTypes(cand), "skin_care_clinic")
      /\ hasCoreTerm(cand) ) => verdict = TRUE

---------------------------------------------------------------------------
\* C15: a candidate no earlier rule decided is accepted exactly when its
\* text has "derm" or "skin", it shows medical context (doctor/health type
\* tag, or the words medical, clinic, center) and it does not look like a
\* retail store (store type tag, beauty supply, cosmetics store); whatever
\* reaches the end of the chain unmatched is rejected.
undecidedEarlier(p) ==
    /\ ~hasExcludeTerm(p)
    /\ ~includes(candTypes(p), "skin_care_clinic")
    /\ ~anyTermIn(coreTerms, searchText(p))
    /\ ~anyTermIn(relatedTerms, candName(p))
    /\ ~anyTermIn(relatedTerms, candWebsite(p))

tagHas(p, word) ==
    LET types == Field(p, "types", <<>>)
    IN  \E i \in 1..Len(types) : includes(toLowerCase(types[i]), word)

weakSignal(p) == includes(searchText(p), "derm") \/ includes(searchText(p), "skin")

looksMedical(p) ==
    \/ tagHas(p, "doctor") \/ tagHas(p, "health")
    \/ \E w \in {"medical", "clinic", "center"} : includes(searchText(p), w)

looksLikeStore(p) ==
    \/ tagHas(p, "store")
    \/ \E w \in {"beauty supply", "cosmetics store"} : includes(searchText(p), w)

WeakSignalRule ==
    (classified /\ undecidedEarlier(cand)) =>
        (verdict = (weakSignal(cand) /\ looksMedical(cand) /\ ~looksLikeStore(cand)))

\* a weak signal with medical context, turned down as a retail store
WeakSignalRuleWitness ==
    /\ classified
    /\ undecidedEarlier(cand)
    /\ weakSignal(cand) /\ looksMedical(cand) /\ looksLikeStore(cand)
    /\ verdict = FALSE

---------------------------------------------------------------------------
\* C16: an evaluation of the classifier returns what the candidate alone
\* determines, whatever the evaluation before it returned, and changes
\* nothing but its own result: the candidate and every counter, seen set,
\* list and file of the pipeline stay as they were.
verdictOf == [c \in Candidates |-> acceptByDermHeuristics(c)]

---------------------------------------------------------------------------
\* C17: the grid is the full Cartesian product of the latitude steps and the
\* longitude steps, counted from the lower bounds in increments of the step,
\* the upper bound included when the span is a whole multiple of the step,
\* every coordinate a whole number of micro-degrees; the box 30..30.6,
\* -90..-89.4 with step 0.3 gives exactly 9 points.
stepsOf(lo, hi, step) ==
    LET n == IF hi.u < lo.u THEN 0 ELSE (hi.u - lo.u) \div step.u + 1
    IN  [i \in 1..n |-> lo.u + (i - 1) * step.u]

cartesian(lats, lngs) ==
    [k \in 1..(Len(lats) * Len(lngs)) |->
        [lat |-> lats[((k - 1) \div Len(lngs)) + 1],
         lng |-> lngs[((k - 1) % Len(lngs)) + 1]]]

NinePointBox == [minLat |-> Deg10(300), maxLat |-> Deg10(306),
                 minLng |-> Deg10(-900), maxLng |-> Deg10(-894)]

GridIsCartesianProduct ==
    (libPc \in {"grid", "returned"} /\ bounds # NoBounds) =>
        /\ points = cartesian(stepsOf(bounds.minLat, bounds.maxLat, STEP_DEG),
                              stepsOf(bounds.minLng, bounds.maxLng, STEP_DEG))
        /\ bounds = NinePointBox => Len(points) = 9

GridIsCartesianProductWitness ==
    /\ libPc = "grid"
    /\ bounds = NinePointBox
    /\ Len(points) = 9
    /\ points[9] = [lat |-> 30600000, lng |-> 0 - 89400000]

---------------------------------------------------------------------------
\* C18: for a line of today that carries an opening and a closing time, the
\* resolver returns true exactly when the local time t, in minutes since
\* midnight, has open <= t < close: the opening minute counts, the closing
\* minute does not.
linesOfToday == { i \in 1..Len(weekdayText) : startsWith(weekdayText[i], chars(clock.weekday)) }

lineOfToday == weekdayText[CHOOSE i \in linesOfToday : \A j \in linesOfToday : i <= j]

\* the times a line was written from
spanOfLine == [l \in { formatLine(r) : r \in HourSpecs } |->
                  (CHOOSE r \in HourSpecs : formatLine(r) = l).span]

\* minutes since midnight of a time on the 12-hour clock
minuteOfDay(t) ==
    (t.hour % 12) * 60 + t.min + (IF t.period = "PM" THEN 12 * 60 ELSE 0)

OpenNowIsHalfOpenInterval ==
    (resolved /\ linesOfToday # {} /\ lineOfToday \in DOMAIN spanOfLine) =>
        (current_open_now =
            ( /\ minuteOfDay(spanOfLine[lineOfToday].open) <= clock.t
              /\ clock.t < minuteOfDay(spanOfLine[lineOfToday].close) ))

---------------------------------------------------------------------------
\* C19: the resolver fails closed: it returns false when no line starts with
\* today's weekday name, when today's line has "closed" in any letter case,
\* and when today's line carries no H:MM AM/PM - H:MM AM/PM pair.
saysClosed(l) == lowerIncludes(l, chars("closed"))

OpenNowFailsClosed ==
    resolved =>
        /\ current_open_now \in BOOLEAN
        /\ linesOfToday = {} => current_open_now = FALSE
        /\ (linesOfToday # {} /\ saysClosed(lineOfToday)) => current_open_now = FALSE
        /\ (linesOfToday # {} /\ lineOfToday \notin DOMAIN spanOfLine)
               => current_open_now = FALSE

\* "Monday: by appointment" on a Monday
OpenNowFailsClosedWitness ==
    /\ resolved
    /\ clock.weekday = "Monday"
    /\ linesOfToday # {}
    /\ lineOfToday = chars("Monday: by appointment")
    /\ current_open_now = FALSE

---------------------------------------------------------------------------
\* C20: the address decomposition never throws, whether the component list
\* is absent, empty or lacks a component: state_code, city and postal_code
\* are null when not found, and city comes from the postal town only when
\* there is no locality.
componentsOf(p) == IF "addressComponents" \in DOMAIN p THEN p.addressComponents ELSE <<>>

firstOfType(l, type) ==
    LET hits == { i \in 1..Len(l) :
                    "types" \in DOMAIN l[i] /\ \E k \in 1..Len(l[i].types) : l[i].types[k] = type }
    IN  IF hits = {} THEN 0 ELSE CHOOSE i \in hits : \A j \in hits : i <= j

AddressNeverThrows ==
    normalized =>
        LET l    == componentsOf(normPlace)
            adm  == firstOfType(l, "administrative_area_level_1")
            loc  == firstOfType(l, "locality")
            town == firstOfType(l, "postal_town")
            zip  == firstOfType(l, "postal_code")
        IN  /\ ac.threw = FALSE
            /\ ac.state_code = (IF adm = 0 THEN Null ELSE l[adm].shortText)
            /\ ac.postal_code = (IF zip = 0 THEN Null ELSE l[zip].longText)
            /\ ac.city = (IF loc # 0 THEN l[loc].longText
                          ELSE IF town # 0 THEN l[town].longText
                          ELSE Null)

\* a place with a postal town and a postal code, but no locality and no
\* state
AddressNeverThrowsWitness ==
    /\ normalized
    /\ firstOfType(componentsOf(normPlace), "locality") = 0
    /\ firstOfType(componentsOf(normPlace), "administrative_area_level_1") = 0
    /\ ac = Address(FALSE, Null, "Hoover", "35203")

---------------------------------------------------------------------------
\* C21: the clinic's opening_hours field is set exactly when the payload
\* carries a live open-now flag or a non-empty list of weekday descriptions;
\* with neither -- an empty list and no flag included -- it is left unset.
hasOpenNowFlag(p) ==
    "currentOpeningHours" \in DOMAIN p /\ "openNow" \in DOMAIN p.currentOpeningHours

hasWeekdayDescriptions(p) ==
    /\ "regularOpeningHours" \in DOMAIN p
    /\ "weekdayDescriptions" \in DOMAIN p.regularOpeningHours
    /\ Len(p.regularOpeningHours.weekdayDescriptions) > 0

OpeningHoursSetIffCarried ==
    normalized =>
        (opening_hours.set <=> (hasOpenNowFlag(normPlace) \/ hasWeekdayDescriptions(normPlace)))

---------------------------------------------------------------------------
\* the POST requests arrive one at a time
sequentialPosts == post["p2"].pc = "off"

\* no request is between its arrival and its write
noPostInFlight == \A r \in Posters : post[r].pc \in {"off", "idle", "done"}

\* C22: after any sequence of sequential POST merges into one state file the
\* file holds exactly one record per place_id ever posted (or already in the
\* file), and that record is the most recently posted one for the id; hence
\* posting a list again leaves the stored clinics as they were.
UpsertLastWriteWins ==
    (sequentialPosts /\ noPostInFlight) =>
        /\ placeIds(fileClinics) = known
        /\ \A i, j \in 1..Len(fileClinics) :
               fileClinics[i].place_id = fileClinics[j].place_id => i = j
        /\ \A i \in 1..Len(fileClinics) :
               fileClinics[i].display_name = latest[fileClinics[i].place_id]

\* C22, the idempotence half: merging a request's clinics into the file the
\* request has just written changes nothing.
UpsertIdempotent ==
    \A r \in Posters :
        (sequentialPosts /\ post[r].pc = "done" /\ post[r].status = 200) =>
            mergeClinics(fileClinics, post[r].clinics) = fileClinics

UpsertContract == UpsertLastWriteWins /\ UpsertIdempotent

\* three sequential posts have replaced the record of ChIJ-a that was in the
\* file and added ChIJ-b
UpsertContractWitness ==
    /\ sequentialPosts
    /\ noPostInFlight
    /\ postsStarted = MaxPosts
    /\ post["p1"].status = 200
    /\ Len(fileClinics) = 2
    /\ fileClinics[1] = [place_id |-> "ChIJ-a", display_name |-> "Skin Clinic PC"]
    /\ latest["ChIJ-a"] = "Skin Clinic PC"

---------------------------------------------------------------------------
\* C30: no update is lost when two POST merges into the same state file
\* overlap: once both have written, the file holds every place_id that was
\* in the file before or in either request.
NoLostUpdate ==
    noPostInFlight => known \subseteq placeIds(fileClinics)

---------------------------------------------------------------------------
isPrefix(a, b) == Len(a) <= Len(b) /\ SubSeq(b, 1, Len(a)) = a

\* a collector's run begins: collectState is entered, or a strategy is called
runBegins == pc = "main" \/ libPc = "idle"

\* C23: first seen wins. Within a collector's run a step only appends to the
\* list of stored clinics: a clinic once stored is never replaced or moved
\* by a later page, query or grid cell, a place_id is stored once, and the
\* list is in order of first insertion.
FirstSeenWins ==
    [][ /\ ~runBegins => (isPrefix(clinics, clinics') /\ isPrefix(all, all'))
        /\ distinctIds(clinics') /\ distinctIds(all')
        /\ seen' = placeIds(clinics') /\ libSeen' = placeIds(all') ]_vars

\* a place_id came again after it was stored, and what is stored is the
\* record of the first occurrence, followed by a clinic found later
FirstSeenWinsWitness ==
    /\ repeats
    /\ \/ /\ Len(all) = 2
          /\ all[1].place_id = "ChIJ-a"
          /\ all[1].display_name = "Bright Skin Dermatology Ctr"
          /\ all[2].place_id = "ChIJ-b"
          /\ libPc = "returned"
       \/ /\ Len(clinics) = 2
          /\ clinics[1].place_id = "ChIJ-a"
          /\ clinics[1].display_name = "Bright Skin Dermatology Ctr"
          /\ clinics[2].place_id = "ChIJ-b"
          /\ pc = "write"

---------------------------------------------------------------------------
\* a collector is about to fetch a further page of the query it is on
furtherPageDue ==
    \/ pc \in {"gate", "fetch"} /\ pagesForQuery > 0
    \/ libPc = "text" /\ pagesFetched > 0

\* a collector has consumed the last page of a query
lastPageConsumed ==
    \/ pc \in {"gate", "fetch"} /\ pagesForQuery = 0 /\ qi > 1
    \/ pc = "write"
    \/ libPc = "text" /\ pagesFetched = 0 /\ libQi > 1
    \/ libPc = "returned" /\ queries > 0

\* C24: in the text-paginated strategy an explicit inter-page delay is
\* waited between two consecutive page fetches of one query, on top of the
\* rate limiter's interval, and none is waited after a query's last page.
InterPageDelayWaited ==
    /\ furtherPageDue => sleptForNextPage
    /\ lastPageConsumed => ~sleptForNextPage

---------------------------------------------------------------------------
\* C25: the delay slept before retry number k of a gateway call is
\* 500 * 2^k ms plus a jitter in [0, 250) ms; each retry of a call waits
\* strictly longer than the one before it, and at least the rate limiter's
\* minimum interval.
BackoffDoubles ==
    \A c \in Callers :
        gw[c].pc = "backoff" =>
            LET k == gw[c].attempt
            IN  /\ gw[c].delay >= 500 * pow2(k)
                /\ gw[c].delay < 500 * pow2(k) + 250
                /\ k > 0 => gw[c].delay > gw[c].prevDelay
                /\ gw[c].delay >= MIN_INTERVAL_MS

\* the third backoff of a call, 2000 ms, after a second one that drew the
\* largest jitter, 1249 ms
BackoffDoublesWitness ==
    \E c \in Callers :
        /\ gw[c].pc = "backoff"
        /\ gw[c].attempt = 2
        /\ gw[c].prevDelay = 1249
        /\ gw[c].delay = 2000

---------------------------------------------------------------------------
\* minutes since midnight of h:MM AM/PM as the 12-hour clock reads it
twelveHourMinutes(t) ==
    IF t.hour \in 1..11
    THEN IF t.period = "AM" THEN 60 * t.hour + t.min ELSE 60 * (t.hour + 12) + t.min
    ELSE IF t.period = "AM" THEN t.min ELSE 720 + t.min

\* C26: both endpoints of a matched hours line are converted to minutes
\* since midnight on the 12-hour clock: h:MM AM is 60h+MM and h:MM PM is
\* 60(h+12)+MM for h in 1..11, 12:MM AM is MM, 12:MM PM is 720+MM; every
\* converted endpoint lies in 0..1439.
TwelveHourConversion ==
    (resolved /\ times.converted /\ lineOfToday \in DOMAIN spanOfLine) =>
        /\ times.openTime = twelveHourMinutes(spanOfLine[lineOfToday].open)
        /\ times.closeTime = twelveHourMinutes(spanOfLine[lineOfToday].close)
        /\ times.openTime \in 0..1439
        /\ times.closeTime \in 0..1439

\* "Monday: 12:30 PM - 11:59 PM" converted to 750 and 1439
TwelveHourConversionWitness ==
    /\ resolved
    /\ times.converted
    /\ lineOfToday \in DOMAIN spanOfLine
    /\ spanOfLine[lineOfToday].open = Time(12, 30, "PM")
    /\ times.openTime = 750
    /\ times.closeTime = 1439

\* "Monday: 12:00 AM - 8:00 AM" converted to 0 and 480
MidnightConversionWitness ==
    /\ resolved
    /\ times.converted
    /\ lineOfToday \in DOMAIN spanOfLine
    /\ spanOfLine[lineOfToday].open = Time(12, 0, "AM")
    /\ times.openTime = 0
    /\ times.closeTime = 480

---------------------------------------------------------------------------
\* C29: when the converted closing time of today's line is not later than
\* its opening time (hours that cross midnight, or that close at 12:00 AM),
\* the resolver returns false whatever the current time of that day.
OvernightNeverOpen ==
    (resolved /\ times.converted /\ times.closeTime <= times.openTime) =>
        current_open_now = FALSE

\* "Monday: 6:00 PM - 2:00 AM" at 11:59 PM on a Monday: not open
OvernightNeverOpenWitness ==
    /\ resolved
    /\ times.converted
    /\ times.openTime = 1080
    /\ times.closeTime = 120
    /\ clock.weekday = "Monday"
    /\ clock.t = 1439
    /\ current_open_now = FALSE

---------------------------------------------------------------------------
running == { t \in Tasks : taskState[t] = "running" }

finished == { t \in Tasks : taskState[t] \in {"done", "failed"} }

PoolBounded ==
    /\ active = Cardinality(running)
    /\ active <= 5
    /\ \A t \in Tasks : starts[t] <= 1
    /\ \A t \in Tasks : taskState[t] # "pending" <=> starts[t] = 1
    \* a failure does not stop the pool: while tasks are left to start, the
    \* pool is full
    /\ (next > 0 /\ next < numTasks) => active = 5
    /\ poolResolved => finished = Tasks

\* C27: the download pool never runs more than 5 tasks at once, starts
\* every task exactly once, goes on with the remaining tasks when one
\* fails, resolves its promise only after every task has finished, and does
\* resolve, also when there is no task at all.
PoolCompletes ==
    /\ []PoolBounded
    /\ <>(poolResolved /\ \A t \in Tasks : starts[t] = 1)

\* seven tasks, the first of which failed, all started once and finished
PoolCompletesWitness ==
    /\ numTasks = MaxTasks
    /\ poolResolved
    /\ taskState[1] = "failed"
    /\ taskState[MaxTasks] = "done"
    /\ \A t \in Tasks : starts[t] = 1

\* the pool is full and two tasks wait
PoolFullWitness ==
    /\ numTasks = MaxTasks
    /\ active = CONCURRENCY
    /\ next = CONCURRENCY
    /\ \E t \in Tasks : taskState[t] = "pending"

---------------------------------------------------------------------------
RECURSIVE committedUpTo(_)
committedUpTo(n) == IF n = 0 THEN 0 ELSE files[n].total + committedUpTo(n - 1)

\* clinics written to jurisdiction outputs during the run
committed == committedUpTo(NumStates)

\* C28: at the end of a run the total the script reports, GLOBAL_CLINICS, is
\* the number of clinics committed to jurisdiction outputs, also when a
\* jurisdiction was aborted by the global cap or by a failed query.
ReportedTotalIsCommitted ==
    pc = "done" => GLOBAL_CLINICS = committed

=============================================================================
